---------------------------- MODULE Spec2Model ----------------------------
(***************************************************************************)
(* Model of the count-aggregation core of mbiotaDB.                        *)
(*                                                                         *)
(* aggregate_at_taxon_level (src/creator/taxon_merger.py) is a pure        *)
(* function of a pandas DataFrame and its keyword arguments.  A DataFrame  *)
(* is modelled as a record [columns, rows]: the ordered column names and   *)
(* the sequence of rows, each row a function from column name to value.    *)
(* Taxonomic values are sequences of one-character strings, so that the    *)
(* bracket-stripping regex and the lexicographic order used by groupby are *)
(* computed character by character.  The pandas missing value is NA.       *)
(***************************************************************************)
EXTENDS Integers, Sequences, FiniteSets, TLC

VARIABLES
    \* aggregate_at_taxon_level: the caller's table, the place of the caller,
    \* the arguments of the call, its outcome, and the outcome of a second call
    df, pc, args, out, out2,
    \* ParsedTree: the tree, the parent index, the index of clades by name,
    \* the place of the caller, the last lookup and its outcome
    tree, parents, index_clades, tpc, query, result,
    \* get_counts / parse_counts: the BIOM table, the module global obs_id,
    \* the place of the caller and the outcome of the extraction
    table, obs_id, cpc, counts,
    \* Experiment, Subject, Sample: the sets each object holds and the subject
    \* of each sample, and how the last method called ended
    links, call

varsAgg == <<df, pc, args, out, out2>>

varsTree == <<tree, parents, index_clades, tpc, query, result>>

varsCounts == <<table, obs_id, cpc, counts>>

varsModel == <<links, call>>

vars == <<varsAgg, varsTree, varsCounts, varsModel>>

\* the value of a variable that the calls of a specification never read
Unused == "unused"

UnusedTree ==
    /\ tree = Unused /\ parents = Unused /\ index_clades = Unused
    /\ tpc = Unused /\ query = Unused /\ result = Unused

UnusedCounts ==
    /\ table = Unused /\ obs_id = Unused /\ cpc = Unused /\ counts = Unused

UnusedModel ==
    /\ links = Unused /\ call = Unused

-----------------------------------------------------------------------------
(* Bounds of the enumerated inputs *)

\* longest enumerated input table (the 12-row test fixture is added to it)
MaxRows == 2

\* largest number of clades of an enumerated tree
MaxNodes == 4

\* largest count in a cell of an enumerated BIOM table
MaxCount == 1

-----------------------------------------------------------------------------
(* Generic helpers: python lists and strings *)

Range(s) == {s[i] : i \in DOMAIN s}

\* python: x in list
Contains(s, x) == x \in Range(s)

\* python: list.index(x) / Index.get_loc(x), for x in the list
IndexOf(s, x) == CHOOSE i \in DOMAIN s : s[i] = x

\* python: [x for x in s if x not in t]
NotIn(s, t) == SelectSeq(s, LAMBDA x : ~Contains(t, x))

\* the characters that occur in the modelled values, in code-point order
Chars ==
    << "A", "B", "C", "D", "E", "F", "G", "H", "I", "J", "K", "L", "M",
       "N", "O", "P", "[", "]", "_", "c", "f", "g", "k", "o", "p", "q",
       "r", "s" >>

Ord == [c \in Range(Chars) |-> IndexOf(Chars, c)]

\* python str comparison: lexicographic by code point, a proper prefix first
RECURSIVE StrLess(_, _)
StrLess(x, y) ==
    IF y = <<>> THEN FALSE
    ELSE IF x = <<>> THEN TRUE
    ELSE IF Head(x) # Head(y) THEN Ord[Head(x)] < Ord[Head(y)]
    ELSE StrLess(Tail(x), Tail(y))

\* the pandas missing value (NaN / None) of an object column
NA == << "NaN" >>

-----------------------------------------------------------------------------
(* Constants of aggregate_at_taxon_level *)

\* the list with one name too many
recognized_with_strain ==
    << "kingdom", "phylum", "class", "order", "family", "genus", "species",
       "strain" >>

recognized_taxon_levels ==
    << "kingdom", "phylum", "class", "order", "family", "genus", "species" >>

dummy_levels ==
    << <<"k", "_", "_">>, <<"p", "_", "_">>, <<"c", "_", "_">>,
       <<"o", "_", "_">>, <<"f", "_", "_">>, <<"g", "_", "_">>,
       <<"s", "_", "_">> >>

\* dummy_dict after the user-provided dummy_values are processed
dummy_dict(dummy_values) ==
    [l \in Range(recognized_taxon_levels) |->
        IF l \in DOMAIN dummy_values THEN dummy_values[l]
        ELSE dummy_levels[IndexOf(recognized_taxon_levels, l)]]

\* required_taxon_levels: kingdom .. taxon_level
required_taxon_levels(taxon_level) ==
    SubSeq(recognized_taxon_levels, 1,
           IndexOf(recognized_taxon_levels, taxon_level))

-----------------------------------------------------------------------------
(* pandas operations used by aggregate_at_taxon_level *)

\* the taxonomic columns hold strings (dtype object), every other column numbers
IsObjectCol(c) == Contains(recognized_taxon_levels, c)

\* Series.isna(), per value of column c
isna(c, v) == IsObjectCol(c) /\ v = NA

\* the replacement left out: the value as it is spelled
StripBracketsId(v) == v

\* .replace(r'[\[\]]', '', regex=True) on one value: every '[' and ']' is
\* deleted; a missing value is left as it is
StripBrackets(v) == SelectSeq(v, LAMBDA ch : ch \notin {"[", "]"})

\* df[cols] = df.loc[:, cols].replace(r'[\[\]]', '', regex=True)
replace_brackets(d, cols) ==
    [columns |-> d.columns,
     rows |-> [i \in DOMAIN d.rows |->
                 [c \in DOMAIN d.rows[i] |->
                    IF Contains(cols, c) THEN StripBrackets(d.rows[i][c])
                    ELSE d.rows[i][c]]]]

\* a row restricted to the columns cols
Restrict(r, cols) == [c \in Range(cols) |-> r[c]]

\* order of two values of column c
ValLess(c, x, y) == IF IsObjectCol(c) THEN StrLess(x, y) ELSE x < y

\* lexicographic order of two group keys over the columns by
KeyLess(by, a, b) ==
    \E i \in DOMAIN by :
        /\ \A j \in 1..(i - 1) : a[by[j]] = b[by[j]]
        /\ a[by[i]] # b[by[i]]
        /\ ValLess(by[i], a[by[i]], b[by[i]])

\* groupby(by): the group keys; a row with a missing value in a key column
\* belongs to no group (groupby drops NA keys)
GroupKeys(d, by) ==
    {Restrict(d.rows[i], by) :
        i \in {j \in DOMAIN d.rows :
                 \A c \in Range(by) : ~isna(c, d.rows[j][c])}}

\* groupby(by, sort=True): the group keys in ascending order
RECURSIVE SortKeys(_, _)
SortKeys(S, by) ==
    IF S = {} THEN <<>>
    ELSE LET m == CHOOSE k \in S : \A o \in S \ {k} : KeyLess(by, k, o)
         IN  <<m>> \o SortKeys(S \ {m}, by)

\* sum of column c over a sequence of rows
RECURSIVE SumCol(_, _)
SumCol(rows, c) ==
    IF rows = <<>> THEN 0 ELSE Head(rows)[c] + SumCol(Tail(rows), c)

\* the reduction first(): the first value of the group instead of the sum
FirstCol(rows, c) == IF rows = <<>> THEN 0 ELSE Head(rows)[c]

\* the reduction of one group
Reduce(rows, c) == SumCol(rows, c)

\* the columns that groupby(by).sum() sums: the numeric columns that are not
\* keys; object columns that are not keys are dropped
value_cols(d, by) ==
    SelectSeq(d.columns, LAMBDA c : ~Contains(by, c) /\ ~IsObjectCol(c))

\* df.groupby(by).sum().reset_index(): one row per group key, in key order,
\* with the key columns first and the summed numeric columns after them.
\* The index of df.groupby(by).sum() is by, its columns value_cols.
groupby_sum(d, by) ==
    LET vals == value_cols(d, by)
        keys == SortKeys(GroupKeys(d, by), by)
    IN  [columns |-> by \o vals,
         rows |-> [k \in DOMAIN keys |->
                     [c \in Range(by) \cup Range(vals) |->
                        IF Contains(by, c) THEN keys[k][c]
                        ELSE Reduce(SelectSeq(d.rows,
                                 LAMBDA r : Restrict(r, by) = keys[k]), c)]]]

\* summed_df.xs(key, level=level, axis=0): the rows whose index level equals
\* key, with that level dropped; xs raises KeyError when there is none
xs_found(d, key, level) == \E i \in DOMAIN d.rows : d.rows[i][level] = key

xs(d, key, level) ==
    LET cols == NotIn(d.columns, <<level>>)
        hit == SelectSeq(d.rows, LAMBDA r : r[level] = key)
    IN  [columns |-> cols,
         rows |-> [i \in DOMAIN hit |-> Restrict(hit[i], cols)]]

\* new_df[new_df[level] != value]
not_equal(d, level, value) ==
    [columns |-> d.columns,
     rows |-> SelectSeq(d.rows, LAMBDA r : r[level] # value)]

\* a.append(b, ignore_index=True, sort=False): the rows of b after the rows of
\* a; a column one frame lacks is filled with the missing value
append(a, b) ==
    LET cols == a.columns \o NotIn(b.columns, a.columns)
        Fill(r) == [c \in Range(cols) |-> IF c \in DOMAIN r THEN r[c] ELSE NA]
        all == a.rows \o b.rows
    IN  [columns |-> cols, rows |-> [i \in DOMAIN all |-> Fill(all[i])]]

\* d[cols] raises KeyError unless every name of cols is a column of d
has_columns(d, cols) == \A c \in Range(cols) : Contains(d.columns, c)

\* d[cols]
select(d, cols) ==
    [columns |-> cols,
     rows |-> [i \in DOMAIN d.rows |-> Restrict(d.rows[i], cols)]]

\* new_df.loc[new_df[level] == dummy, 'count'] = 0
zero_where(d, level, dummy) ==
    [columns |-> d.columns,
     rows |-> [i \in DOMAIN d.rows |->
                 IF d.rows[i][level] = dummy
                 THEN [d.rows[i] EXCEPT !["count"] = 0]
                 ELSE d.rows[i]]]

-----------------------------------------------------------------------------
(* aggregate_at_taxon_level *)

\* the outcome of a call: the returned DataFrame, or the exception raised
\* (detail: the names the message reports as not found)
Return(d) ==
    [status |-> "ok", columns |-> d.columns, rows |-> d.rows, detail |-> <<>>]

Raise(e, names) ==
    [status |-> e, columns |-> <<>>, rows |-> <<>>, detail |-> names]

\* df.columns.names: the names of the column index, one unnamed level
columns_names == << "None" >>

\* grouping_cols = df.columns.names[:upper_index]
default_grouping_cols(d) ==
    SubSeq(columns_names, 1, IndexOf(d.columns, "kingdom") - 1)

\* the dummy groups left where groupby put them, with their lineage
keep_dummy_groups(summed_df, grouping_cols, taxon_level, dummy) == summed_df

\* 'sum' with simple_aggregation=False: the groups whose taxon_level is the
\* dummy value are taken out (xs), summed again per grouping_cols, and
\* appended at the bottom; the lineage columns of the appended rows are NA
sum_unknown(summed_df, grouping_cols, taxon_level, dummy) ==
    IF ~xs_found(summed_df, dummy, taxon_level) THEN summed_df
    ELSE LET count_unknown_genera == xs(summed_df, dummy, taxon_level)
             new_rows == groupby_sum(count_unknown_genera, grouping_cols)
             new_df == not_equal(summed_df, taxon_level, dummy)
         IN  append(new_df, new_rows)

\* the remove condition without its isna() half
remove_dummy_only(new_df, taxon_level, dummy) ==
    [columns |-> new_df.columns,
     rows |-> SelectSeq(new_df.rows, LAMBDA r : r[taxon_level] # dummy)]

\* 'remove': new_df.loc[~((new_df[level] == dummy) | new_df[level].isna())]
remove_missing(new_df, taxon_level, dummy) ==
    [columns |-> new_df.columns,
     rows |-> SelectSeq(new_df.rows,
                 LAMBDA r : ~(r[taxon_level] = dummy
                              \/ isna(taxon_level, r[taxon_level])))]

\* 'zero_counts': the merge of the first group with unique_lineages is only
\* printed; the result is the summed frame with the dummy groups' counts at 0
zero_counts(summed_df, taxon_level, dummy) ==
    zero_where(summed_df, taxon_level, dummy)

\* grouping_cols taken as they are given
grouping_not_checked(d, grouping_cols) == <<>>

\* columns_not_found = [col for col in grouping_cols if col not in df.columns]
grouping_not_found(d, grouping_cols) == NotIn(grouping_cols, d.columns)

\* The call: d is the caller's table (the function works on a copy), and
\* taxon_level and the keys of dummy_values are given in lower case, as
\* .lower() leaves them.  The steps follow the function line by line; each
\* raise ends the call.
aggregate_at_taxon_level(d, taxon_level, grouping_cols, dummy_values, missing_method, check_brackets, simple_aggregation, keep_all_cols) ==
    IF \E key \in DOMAIN dummy_values : ~Contains(recognized_taxon_levels, key)
    THEN Raise("ValueError", <<>>)
    ELSE IF ~Contains(recognized_taxon_levels, taxon_level)
    THEN Raise("ValueError", <<taxon_level>>)
    ELSE
    LET required == required_taxon_levels(taxon_level)
        taxon_cols_present == SelectSeq(d.columns, IsObjectCol)
        columns_not_found == NotIn(required, taxon_cols_present)
        dummy == dummy_dict(dummy_values)[taxon_level]
    IN
    IF ~Contains(taxon_cols_present, taxon_level)
    THEN Raise("NoTaxonLevelPresent", <<taxon_level>>)
    ELSE IF columns_not_found # <<>>
    THEN Raise("NoTaxonLevelPresent", columns_not_found)
    ELSE IF grouping_cols # <<>> /\ grouping_not_found(d, grouping_cols) # <<>>
    THEN Raise("ValueError", grouping_not_found(d, grouping_cols))
    ELSE
    LET gcols == IF grouping_cols # <<>> THEN grouping_cols
                 ELSE default_grouping_cols(d)
        columns == IF simple_aggregation THEN gcols \o <<taxon_level>>
                   ELSE gcols \o required
        df1 == IF check_brackets THEN replace_brackets(d, taxon_cols_present)
               ELSE d
    IN
    \* df.groupby(columns) raises KeyError for a key that is no column
    IF ~has_columns(df1, columns) THEN Raise("KeyError", NotIn(columns, d.columns))
    ELSE
    LET summed_df == groupby_sum(df1, columns)
        \* count_unknown_genera.groupby([]) raises "No group keys passed!"
        no_keys == /\ ~simple_aggregation
                   /\ gcols = <<>>
                   /\ xs_found(summed_df, dummy, taxon_level)
        new_df == IF simple_aggregation THEN summed_df
                  ELSE sum_unknown(summed_df, gcols, taxon_level, dummy)
    IN
    IF no_keys THEN Raise("ValueError", <<>>)
    ELSE IF missing_method \notin {"sum", "remove", "zero_counts"}
    THEN Raise("ValueError", <<missing_method>>)
    \* unique_lineages = new_df[required_taxon_levels]
    ELSE IF missing_method = "zero_counts" /\ ~has_columns(new_df, required)
    THEN Raise("KeyError", NotIn(required, new_df.columns))
    ELSE
    LET final == CASE missing_method = "sum" -> new_df
                   [] missing_method = "remove" ->
                        remove_missing(new_df, taxon_level, dummy)
                   [] missing_method = "zero_counts" ->
                        zero_counts(summed_df, taxon_level, dummy)
    IN
    IF keep_all_cols THEN Return(final)
    ELSE IF ~has_columns(final, columns \o <<"count">>)
    THEN Raise("KeyError", NotIn(columns \o <<"count">>, final.columns))
    ELSE Return(select(final, columns \o <<"count">>))

-----------------------------------------------------------------------------
(* Inputs *)

\* a label: rank letter, "__", name
Label(letter, name) == <<letter, "_", "_">> \o name

\* the enumerated long-format tables: one grouping column left of the
\* taxonomic columns kingdom and phylum, and the count column
SmallColumns == << "sample_id", "kingdom", "phylum", "count" >>

KingdomValues == { Label("k", <<"A">>), Label("k", <<>>), NA }

PhylumValues ==
    { Label("p", <<"F">>), Label("p", <<"[", "F", "]">>), Label("p", <<>>), NA }

SampleValues == {1, 2}

\* the i-th row of an enumerated table counts 2^(i-1): the counts are nonzero
\* and pairwise distinct, and a sum tells which rows it adds
CountAt(i) == 2 ^ (i - 1)

SmallLineages ==
    { [sample_id |-> s, kingdom |-> k, phylum |-> p] :
      s \in SampleValues, k \in KingdomValues, p \in PhylumValues }

SmallTables ==
    { [columns |-> SmallColumns,
       rows |-> [i \in DOMAIN r |->
                   [c \in Range(SmallColumns) |->
                      IF c = "count" THEN CountAt(i) ELSE r[i][c]]]] :
      r \in UNION { [1..n -> SmallLineages] : n \in 0..MaxRows } }

\* a table with the Greengenes spelling of proposed taxa, p__[F], next to
\* the plain spelling, in the target column and in a coarser column
BracketTable ==
    [columns |-> SmallColumns,
     rows |-> <<
       [sample_id |-> 1, kingdom |-> Label("k", <<"[", "A", "]">>),
        phylum |-> Label("p", <<"F">>), count |-> 1],
       [sample_id |-> 1, kingdom |-> Label("k", <<"A">>),
        phylum |-> Label("p", <<"F">>), count |-> 2],
       [sample_id |-> 1, kingdom |-> Label("k", <<"A">>),
        phylum |-> Label("p", <<"[", "F", "]">>), count |-> 4],
       [sample_id |-> 2, kingdom |-> Label("k", <<"[", "A", "]">>),
        phylum |-> Label("p", <<>>), count |-> 8],
       [sample_id |-> 2, kingdom |-> Label("k", <<"A">>),
        phylum |-> Label("p", <<>>), count |-> 16]
     >>]

\* TaxonMergerTest.setUp: self.data2, read with self.columns; the columns
\* lineage_id, seq_var_id and id, which no call below reads, are left out
FixtureGrouping ==
    << "experiment_id", "subject_id", "sample_id", "sample_time_id",
       "sample_site_id", "preperation_id", "workflow_id" >>

FixtureColumns == FixtureGrouping \o <<"count">> \o recognized_taxon_levels

FixtureRow(g, w, n, p, c, o, f, gn, sp) ==
    [col \in Range(FixtureColumns) |->
       CASE col = "workflow_id" -> w
         [] col = "count" -> n
         [] col = "kingdom" -> Label("k", <<"A">>)
         [] col = "phylum" -> Label("p", p)
         [] col = "class" -> Label("c", c)
         [] col = "order" -> Label("o", o)
         [] col = "family" -> Label("f", f)
         [] col = "genus" -> Label("g", gn)
         [] col = "species" -> Label("s", sp)
         [] OTHER -> g]

Fixture ==
    [columns |-> FixtureColumns,
     rows |-> <<
       FixtureRow(1, 1, 1, <<"B">>, <<"E">>, <<"H">>, <<"K">>, <<"O">>, <<"q">>),
       FixtureRow(1, 1, 2, <<"C">>, <<"F">>, <<"I">>, <<"L">>, <<>>, <<>>),
       FixtureRow(1, 1, 1, <<"D">>, <<"G">>, <<"J">>, <<"M">>, <<"P">>, <<>>),
       FixtureRow(1, 1, 2, <<"C">>, <<"F">>, <<"I">>, <<"L">>, <<>>, <<>>),
       FixtureRow(2, 2, 1, <<"C">>, <<"F">>, <<"I">>, <<"N">>, <<>>, <<>>),
       FixtureRow(2, 2, 2, <<"D">>, <<"G">>, <<"J">>, <<"M">>, <<"P">>, <<>>),
       FixtureRow(2, 2, 1, <<"C">>, <<"F">>, <<"I">>, <<"N">>, <<>>, <<>>),
       FixtureRow(2, 2, 2, <<"C">>, <<"F">>, <<"I">>, <<"N">>, <<>>, <<>>),
       FixtureRow(3, 2, 1, <<"C">>, <<"F">>, <<"I">>, <<"N">>, <<>>, <<>>),
       FixtureRow(3, 2, 2, <<"D">>, <<"G">>, <<"J">>, <<"M">>, <<"P">>, <<>>),
       FixtureRow(3, 2, 1, <<"C">>, <<"F">>, <<"I">>, <<"L">>, <<>>, <<>>),
       FixtureRow(3, 2, 2, <<"D">>, <<"G">>, <<"J">>, <<"M">>, <<"P">>, <<"r">>)
     >>]

\* the arguments the calls are made with, per input table
LevelChoices(d) ==
    IF d = Fixture THEN {"genus", "class"} ELSE {"kingdom", "phylum"}

GroupingChoices(d) ==
    IF d = Fixture THEN {FixtureGrouping} ELSE {<<"sample_id">>}

MethodChoices == {"sum", "remove", "zero_counts"}

\* dummy_values = {}: no key
NoDummyValues == [key \in {} |-> NA]

-----------------------------------------------------------------------------
(* The calls *)

NoResult == Raise("none", <<>>)

InitAgg ==
    /\ df \in SmallTables \cup {BracketTable, Fixture}
    /\ pc = "ready"
    /\ args = [taxon_level |-> "", grouping_cols |-> <<>>,
               dummy_values |-> NoDummyValues,
               missing_method |-> "", check_brackets |-> TRUE,
               simple_aggregation |-> FALSE]
    /\ out = NoResult
    /\ out2 = NoResult
    /\ UnusedTree
    /\ UnusedCounts
    /\ UnusedModel

\* out = aggregate_at_taxon_level(df, taxon_level=..., grouping_cols=..., ...)
Aggregate(level, gcols, method, brackets, simple) ==
    /\ pc = "ready"
    /\ args' = [taxon_level |-> level, grouping_cols |-> gcols,
                dummy_values |-> NoDummyValues,
                missing_method |-> method, check_brackets |-> brackets,
                simple_aggregation |-> simple]
    /\ out' = aggregate_at_taxon_level(df, level, gcols, NoDummyValues, method,
                                       brackets, simple, FALSE)
    /\ pc' = "done"
    /\ UNCHANGED <<df, out2, varsTree, varsCounts, varsModel>>

\* the table returned by a hierarchical 'sum' call is aggregated again with
\* the same arguments
Reaggregate ==
    /\ pc = "done"
    /\ out.status = "ok"
    /\ args.missing_method = "sum"
    /\ ~args.simple_aggregation
    /\ out2' = aggregate_at_taxon_level(
                  [columns |-> out.columns, rows |-> out.rows],
                  args.taxon_level, args.grouping_cols, NoDummyValues,
                  args.missing_method, args.check_brackets,
                  args.simple_aggregation, FALSE)
    /\ pc' = "redone"
    /\ UNCHANGED <<df, args, out, varsTree, varsCounts, varsModel>>

NextAgg ==
    \/ \E level \in LevelChoices(df), gcols \in GroupingChoices(df),
          method \in MethodChoices, brackets \in BOOLEAN, simple \in BOOLEAN :
          Aggregate(level, gcols, method, brackets, simple)
    \/ Reaggregate

SpecAgg == InitAgg /\ [][NextAgg]_varsAgg

\* The calls that pass dummy_values or name a taxon_level that is no rank.
\* 'strain' stands for every name outside recognized_taxon_levels.
ArgLevels(d) ==
    IF d = Fixture THEN {"genus", "strain"} ELSE {"phylum", "strain"}

\* dummy_values={'phylum': 'p__F'}: the phylum p__F is the caller's marker of
\* an unclassified phylum
CustomDummy == [key \in {"phylum"} |-> Label("p", <<"F">>)]

DummyChoices == {NoDummyValues, CustomDummy}

\* out = aggregate_at_taxon_level(df, taxon_level=..., dummy_values=..., ...)
\* with check_brackets and keep_all_cols left at their defaults
AggregateArgs(level, gcols, dvals, method, simple) ==
    /\ pc = "ready"
    /\ args' = [taxon_level |-> level, grouping_cols |-> gcols,
                dummy_values |-> dvals,
                missing_method |-> method, check_brackets |-> TRUE,
                simple_aggregation |-> simple]
    /\ out' = aggregate_at_taxon_level(df, level, gcols, dvals, method,
                                       TRUE, simple, FALSE)
    /\ pc' = "done"
    /\ UNCHANGED <<df, out2, varsTree, varsCounts, varsModel>>

NextArgs ==
    \E level \in ArgLevels(df), gcols \in GroupingChoices(df),
       dvals \in DummyChoices, method \in MethodChoices, simple \in BOOLEAN :
       AggregateArgs(level, gcols, dvals, method, simple)

SpecArgs == InitAgg /\ [][NextArgs]_varsAgg

-----------------------------------------------------------------------------
(* Calls on tables that lack columns, and the caller's table after a call *)

\* the statements before the replacement of the brackets raise: the checks of
\* dummy_values, of taxon_level, of the rank columns and of grouping_cols
raises_before_replace(d, taxon_level, grouping_cols, dummy_values) ==
    \/ \E key \in DOMAIN dummy_values : ~Contains(recognized_taxon_levels, key)
    \/ ~Contains(recognized_taxon_levels, taxon_level)
    \/ NotIn(required_taxon_levels(taxon_level), d.columns) # <<>>
    \/ grouping_cols # <<>> /\ grouping_not_found(d, grouping_cols) # <<>>

\* the frame the local name df holds when the call ends: the assignment
\* df[taxon_cols_present] = ... is the only statement that writes into it
local_df(d, taxon_level, grouping_cols, dummy_values, check_brackets) ==
    IF check_brackets
       /\ ~raises_before_replace(d, taxon_level, grouping_cols, dummy_values)
    THEN replace_brackets(d, SelectSeq(d.columns, IsObjectCol))
    ELSE d

\* the caller's frame after a call whose local name df is the caller's frame
without_copy(d, local) == local

\* df = df.copy(): the local name df holds a new frame, and the caller's frame
\* d is as it was whatever is written into local
with_copy(d, local) == d

\* the column layouts of the tables: all columns, a rank column or both
\* missing, and the rank columns leftmost
ColumnLayouts ==
    { SmallColumns,
      << "sample_id", "phylum", "count" >>,
      << "sample_id", "kingdom", "count" >>,
      << "sample_id", "count" >>,
      << "kingdom", "phylum", "sample_id", "count" >> }

LayoutLineages ==
    { [sample_id |-> 1, kingdom |-> k, phylum |-> p] :
      k \in { Label("k", <<"A">>), Label("k", <<"[", "A", "]">>) },
      p \in { Label("p", <<"[", "F", "]">>), Label("p", <<>>) } }

LayoutTables ==
    { [columns |-> cols,
       rows |-> [i \in DOMAIN r |->
                   [c \in Range(cols) |->
                      IF c = "count" THEN CountAt(i) ELSE r[i][c]]]] :
      cols \in ColumnLayouts,
      r \in UNION { [1..n -> LayoutLineages] : n \in 0..MaxRows } }

\* 'class' is a rank that is a column of no table
LayoutLevels == {"kingdom", "phylum", "class"}

\* grouping_cols: left at its default [], naming a column, naming a column
\* the tables lack
LayoutGroupings == { <<>>, <<"sample_id">>, <<"sample_id", "run_id">> }

\* 'mean' stands for every missing_method the function does not know
LayoutMethods == MethodChoices \cup {"mean"}

InitCols ==
    /\ df \in LayoutTables
    /\ pc = "ready"
    /\ args = [taxon_level |-> "", grouping_cols |-> <<>>,
               dummy_values |-> NoDummyValues,
               missing_method |-> "", check_brackets |-> TRUE,
               simple_aggregation |-> FALSE]
    /\ out = NoResult
    /\ out2 = NoResult
    /\ UnusedTree
    /\ UnusedCounts
    /\ UnusedModel

\* out = aggregate_at_taxon_level(df, ...); df is the caller's table after
\* the call
AggregateCols(level, gcols, method, brackets, simple) ==
    /\ pc = "ready"
    /\ args' = [taxon_level |-> level, grouping_cols |-> gcols,
                dummy_values |-> NoDummyValues,
                missing_method |-> method, check_brackets |-> brackets,
                simple_aggregation |-> simple]
    /\ out' = aggregate_at_taxon_level(df, level, gcols, NoDummyValues, method,
                                       brackets, simple, FALSE)
    /\ df' = with_copy(df, local_df(df, level, gcols, NoDummyValues, brackets))
    /\ pc' = "done"
    /\ UNCHANGED <<out2, varsTree, varsCounts, varsModel>>

\* the columns positioned left of 'kingdom'
left_of_kingdom(d) == SubSeq(d.columns, 1, IndexOf(d.columns, "kingdom") - 1)

\* after a call that left grouping_cols at its default, the same call with
\* the columns left of 'kingdom' passed as grouping_cols
AggregateExplicit ==
    /\ pc = "done"
    /\ args.grouping_cols = <<>>
    /\ Contains(df.columns, "kingdom")
    /\ out2' = aggregate_at_taxon_level(df, args.taxon_level, left_of_kingdom(df),
                  NoDummyValues, args.missing_method, args.check_brackets,
                  args.simple_aggregation, FALSE)
    /\ pc' = "redone"
    /\ UNCHANGED <<df, args, out, varsTree, varsCounts, varsModel>>

NextCols ==
    \/ \E level \in LayoutLevels, gcols \in LayoutGroupings,
          method \in LayoutMethods, brackets \in BOOLEAN, simple \in BOOLEAN :
          AggregateCols(level, gcols, method, brackets, simple)
    \/ AggregateExplicit

SpecCols == InitCols /\ [][NextCols]_vars

-----------------------------------------------------------------------------
(* Vocabulary of the properties *)

\* a call has been made and out holds its outcome
Called == pc \in {"done", "redone"}

Returned == Called /\ out.status = "ok"

\* the call reads columns the table has and names a missing_method that exists
ValidCall ==
    /\ Contains(recognized_taxon_levels, args.taxon_level)
    /\ \A c \in Range(required_taxon_levels(args.taxon_level)) :
          Contains(df.columns, c)
    /\ args.grouping_cols # <<>>
    /\ \A c \in Range(args.grouping_cols) : Contains(df.columns, c)
    /\ args.missing_method \in MethodChoices

\* kingdom .. taxon_level of the call
Prefix == required_taxon_levels(args.taxon_level)

\* the taxonomic columns the call groups by
GroupTaxa == IF args.simple_aggregation THEN <<args.taxon_level>> ELSE Prefix

\* the dummy value of the target rank (no dummy_values are passed)
Dummy == dummy_levels[IndexOf(recognized_taxon_levels, args.taxon_level)]

\* a value without its decorative brackets, read off character by character
RECURSIVE Unbracketed(_)
Unbracketed(v) ==
    IF v = <<>> THEN <<>>
    ELSE IF Head(v) \in {"[", "]"} THEN Unbracketed(Tail(v))
    ELSE <<Head(v)>> \o Unbracketed(Tail(v))

BracketFree(v) == \A k \in DOMAIN v : v[k] \notin {"[", "]"}

\* the spelling under which the call compares a value
Norm(v) == IF args.check_brackets THEN Unbracketed(v) ELSE v

Total(rows) == SumCol(rows, "count")

KeyOf(r) == Restrict(r, args.grouping_cols)

TaxaOf(r, cols) == [c \in Range(cols) |-> Norm(r[c])]

\* every rank of cols holds a label (no null)
Labelled(r, cols) == \A c \in Range(cols) : r[c] # NA

\* the input rows with grouping key k and labels t at the ranks cols
InputRows(k, t, cols) ==
    SelectSeq(df.rows, LAMBDA r : KeyOf(r) = k /\ TaxaOf(r, cols) = t)

\* the output rows with grouping key k and labels t at the ranks cols
OutputAt(k, t, cols) ==
    {j \in DOMAIN out.rows :
        /\ Restrict(out.rows[j], args.grouping_cols) = k
        /\ Restrict(out.rows[j], cols) = t}

\* the output rows of grouping key k whose lineage columns are all null
OutputUnknown(k) ==
    {j \in DOMAIN out.rows :
        /\ Restrict(out.rows[j], args.grouping_cols) = k
        /\ \A c \in Range(GroupTaxa) : out.rows[j][c] = NA}

\* no input row holds a null at a rank kingdom .. taxon_level
NoNulls == \A i \in DOMAIN df.rows : Labelled(df.rows[i], Prefix)

KeysIn == {KeyOf(df.rows[i]) : i \in DOMAIN df.rows}

PrefixesIn == {TaxaOf(df.rows[i], Prefix) : i \in DOMAIN df.rows}

-----------------------------------------------------------------------------
(* Properties *)

\* C1: with missing_method='sum' the total count of the returned rows equals
\* the total count of the input rows, in simple and in hierarchical mode,
\* also when rows hold a null or the dummy value at the target rank.
C1_Conservation ==
    (Called /\ ValidCall /\ args.missing_method = "sum") =>
        /\ out.status = "ok"
        /\ Total(out.rows) = Total(df.rows)

\* C2: with missing_method='remove' the returned total is at most the input
\* total, and equal to it exactly when no input row holds a null or the dummy
\* value at the target rank.
C2_MonotonicLoss ==
    (Called /\ ValidCall /\ args.missing_method = "remove") =>
        /\ out.status = "ok"
        /\ Total(out.rows) <= Total(df.rows)
        /\ (Total(out.rows) = Total(df.rows)) <=>
              (\A i \in DOMAIN df.rows :
                  Norm(df.rows[i][args.taxon_level]) \notin {NA, Dummy})

\* C3: with missing_method='zero_counts' the number of returned rows is the
\* number of distinct grouping keys of the input times the number of distinct
\* lineage prefixes kingdom..taxon_level of the input.  (Stated for the tables
\* without nulls, where groupby loses no row.)
C3_Densification ==
    (Returned /\ args.missing_method = "zero_counts" /\ NoNulls) =>
        Len(out.rows) = Cardinality(KeysIn) * Cardinality(PrefixesIn)

\* C4: with missing_method='zero_counts' every (grouping key, lineage prefix)
\* combination of the input is in the output, once: with its summed count
\* when input rows have it, with count 0 when none has; no summed count is
\* changed to 0.  (Stated for the tables without nulls and for the
\* hierarchical calls, whose result holds the whole prefix.)
C4_ZeroCountsOuterJoin ==
    (Returned /\ args.missing_method = "zero_counts" /\ NoNulls
              /\ ~args.simple_aggregation) =>
        \A k \in KeysIn, t \in PrefixesIn :
            /\ Cardinality(OutputAt(k, t, Prefix)) = 1
            /\ \A j \in OutputAt(k, t, Prefix) :
                  out.rows[j]["count"] = Total(InputRows(k, t, Prefix))

\* C5: with keep_all_cols=False and any missing_method the returned columns
\* are grouping_cols + [taxon_level, 'count'] in simple mode and
\* grouping_cols + [kingdom .. taxon_level] + ['count'] in hierarchical mode.
C5_ColumnContract ==
    (Called /\ ValidCall) =>
        /\ out.status = "ok"
        /\ out.columns = args.grouping_cols \o GroupTaxa \o <<"count">>

\* C6: aggregating the result of a hierarchical 'sum' call again, with the
\* same taxon_level, grouping columns and policy, returns the same rows with
\* the same counts, up to the order of the rows.
C6_Idempotence ==
    (pc = "redone") =>
        /\ out2.status = "ok"
        /\ out2.columns = out.columns
        /\ Len(out2.rows) = Len(out.rows)
        /\ Range(out2.rows) = Range(out.rows)

\* TaxonMergerTest.setUp: self.simple_sum, the rows test_simple_sum expects
SimpleSumRow(g, w, genus, n) ==
    [col \in Range(FixtureGrouping \o <<"genus", "count">>) |->
       CASE col = "workflow_id" -> w
         [] col = "genus" -> Label("g", genus)
         [] col = "count" -> n
         [] OTHER -> g]

simple_sum ==
    << SimpleSumRow(1, 1, <<>>, 4), SimpleSumRow(1, 1, <<"O">>, 1),
       SimpleSumRow(1, 1, <<"P">>, 1), SimpleSumRow(2, 2, <<>>, 4),
       SimpleSumRow(2, 2, <<"P">>, 2), SimpleSumRow(3, 2, <<>>, 2),
       SimpleSumRow(3, 2, <<"P">>, 4) >>

\* the (grouping key, target-rank label) pairs of the input
PairsIn ==
    {<<KeyOf(df.rows[i]), TaxaOf(df.rows[i], <<args.taxon_level>>)>> :
        i \in {j \in DOMAIN df.rows :
                 Labelled(df.rows[j], <<args.taxon_level>>)}}

\* C7: simple aggregation with the sum policy returns exactly one row per
\* distinct (grouping key, target-rank label) pair of the input; its count is
\* the sum of the counts of all input rows with that pair, whatever their
\* coarser lineage; the dummy label is one such bucket per grouping key; the
\* 12-row fixture aggregated at genus yields the seven rows of simple_sum.
C7_SimpleSum ==
    (Called /\ ValidCall /\ args.simple_aggregation
            /\ args.missing_method = "sum") =>
        /\ out.status = "ok"
        /\ Len(out.rows) = Cardinality(PairsIn)
        /\ \A pr \in PairsIn :
              \E j \in OutputAt(pr[1], pr[2], <<args.taxon_level>>) :
                  out.rows[j]["count"] =
                      Total(InputRows(pr[1], pr[2], <<args.taxon_level>>))
        /\ (df = Fixture /\ args.taxon_level = "genus") =>
              out.rows = simple_sum

\* C7 witness: a simple 'sum' call on a table in which two rows of one
\* grouping key hold the dummy at the target rank under different kingdoms
\* has returned one row for them, with the sum of their counts.
C7_Witness ==
    /\ Returned /\ args.simple_aggregation /\ args.missing_method = "sum"
    /\ args.taxon_level = "phylum"
    /\ \E i, j \in DOMAIN df.rows :
          /\ df.rows[i]["sample_id"] = df.rows[j]["sample_id"]
          /\ df.rows[i]["phylum"] = Dummy /\ df.rows[j]["phylum"] = Dummy
          /\ Labelled(df.rows[i], Prefix) /\ Labelled(df.rows[j], Prefix)
          /\ df.rows[i]["kingdom"] # df.rows[j]["kingdom"]
          /\ Len(out.rows) = 1
          /\ out.rows[1]["count"] = df.rows[i]["count"] + df.rows[j]["count"]

DummyRows(k) ==
    SelectSeq(df.rows, LAMBDA r : KeyOf(r) = k
                                   /\ Norm(r[args.taxon_level]) = Dummy)

\* the (grouping key, lineage prefix) pairs of the input rows whose
\* target-rank value is a label other than the dummy
NamedIn ==
    {<<KeyOf(df.rows[i]), TaxaOf(df.rows[i], Prefix)>> :
        i \in {j \in DOMAIN df.rows :
                 Norm(df.rows[j][args.taxon_level]) \notin {NA, Dummy}}}

\* the grouping keys of the input rows whose target-rank value is the dummy
DummyKeysIn == {k \in KeysIn : DummyRows(k) # <<>>}

\* C9: a hierarchical 'sum' call returns first one row per (grouping key,
\* lineage prefix) whose target-rank value is not the dummy, with its summed
\* count, and after them one row per grouping key that had dummy-valued rows,
\* with null in every lineage column and the sum of that key's dummy-row
\* counts.
C9_SumAtBottom ==
    (Called /\ ValidCall /\ ~args.simple_aggregation
            /\ args.missing_method = "sum") =>
        /\ out.status = "ok"
        /\ Len(out.rows) = Cardinality(NamedIn) + Cardinality(DummyKeysIn)
        /\ \A pr \in NamedIn :
              \E j \in OutputAt(pr[1], pr[2], Prefix) :
                  /\ j <= Cardinality(NamedIn)
                  /\ out.rows[j]["count"] = Total(InputRows(pr[1], pr[2], Prefix))
        /\ \A k \in DummyKeysIn :
              \E j \in OutputUnknown(k) :
                  /\ j > Cardinality(NamedIn)
                  /\ out.rows[j]["count"] = Total(DummyRows(k))

\* two input rows that differ only in decorative brackets at the ranks the
\* call groups by
SpelledApart(r, q) ==
    /\ KeyOf(r) = KeyOf(q)
    /\ Labelled(r, GroupTaxa) /\ Labelled(q, GroupTaxa)
    /\ \A c \in Range(GroupTaxa) : Unbracketed(r[c]) = Unbracketed(q[c])
    /\ \E c \in Range(GroupTaxa) : r[c] # q[c]

\* the input rows that belong to the group of row r once the brackets are
\* stripped: the rows of its key with its labels or, in a hierarchical call
\* on a row with the dummy at the target rank, the labelled dummy rows of
\* its key
GroupOf(r) ==
    SelectSeq(df.rows, LAMBDA q :
        /\ KeyOf(q) = KeyOf(r)
        /\ Labelled(q, GroupTaxa)
        /\ IF ~args.simple_aggregation
              /\ Unbracketed(r[args.taxon_level]) = Dummy
           THEN Unbracketed(q[args.taxon_level]) = Dummy
           ELSE \A c \in Range(GroupTaxa) :
                   Unbracketed(q[c]) = Unbracketed(r[c]))

\* the output rows that hold the group of row r
OutputOf(r) ==
    IF ~args.simple_aggregation /\ Unbracketed(r[args.taxon_level]) = Dummy
    THEN OutputUnknown(KeyOf(r))
    ELSE OutputAt(KeyOf(r),
                  [c \in Range(GroupTaxa) |-> Unbracketed(r[c])], GroupTaxa)

BracketsNormalized ==
    /\ \A j \in DOMAIN out.rows : \A c \in Range(GroupTaxa) :
          BracketFree(out.rows[j][c])
    /\ \A i, j \in DOMAIN df.rows :
          SpelledApart(df.rows[i], df.rows[j]) =>
              /\ Cardinality(OutputOf(df.rows[i])) = 1
              /\ OutputOf(df.rows[j]) = OutputOf(df.rows[i])
              /\ \A o \in OutputOf(df.rows[i]) :
                    out.rows[o]["count"] = Total(GroupOf(df.rows[i]))

-----------------------------------------------------------------------------
(* The remove policy and the unknown rank *)

\* the dummy value in force at the target rank: dummy_values[taxon_level] when
\* the caller gave one, the default '<letter>__' otherwise
EffectiveDummy ==
    IF args.taxon_level \in DOMAIN args.dummy_values
    THEN args.dummy_values[args.taxon_level]
    ELSE Dummy

\* the groups of the summed result: the (grouping key, labels) pairs of the
\* input rows that carry a label at every rank the call groups by
SummedGroups ==
    {<<KeyOf(df.rows[i]), TaxaOf(df.rows[i], GroupTaxa)>> :
        i \in {n \in DOMAIN df.rows : Labelled(df.rows[n], GroupTaxa)}}

\* the groups of the summed result whose target rank is not the dummy value
KeptGroups ==
    {g \in SummedGroups : g[2][args.taxon_level] # EffectiveDummy}

\* C11: a call with missing_method='remove' returns no row whose target rank
\* is null or equals the dummy value in force for that rank (the default
\* '<letter>__' or the value given in dummy_values), and it returns every
\* other group of the summed result exactly once, with its summed count.
C11_RemovePolicy ==
    (Called /\ ValidCall /\ args.missing_method = "remove") =>
        /\ out.status = "ok"
        /\ \A j \in DOMAIN out.rows :
              /\ out.rows[j][args.taxon_level] # NA
              /\ out.rows[j][args.taxon_level] # EffectiveDummy
        /\ Len(out.rows) = Cardinality(KeptGroups)
        /\ \A g \in KeptGroups :
              \E j \in DOMAIN out.rows :
                 /\ OutputAt(g[1], g[2], GroupTaxa) = {j}
                 /\ out.rows[j]["count"] = Total(InputRows(g[1], g[2], GroupTaxa))

\* C11 witness: a hierarchical 'remove' call with dummy_values given for the
\* target rank, on a table that holds a row with that dummy value and a row
\* with another label; only the latter is returned.
C11_Witness ==
    /\ Called
    /\ ValidCall
    /\ args.missing_method = "remove"
    /\ ~args.simple_aggregation
    /\ args.taxon_level \in DOMAIN args.dummy_values
    /\ \E i \in DOMAIN df.rows :
          /\ Labelled(df.rows[i], Prefix)
          /\ Norm(df.rows[i][args.taxon_level]) = EffectiveDummy
    /\ \E i \in DOMAIN df.rows :
          /\ Labelled(df.rows[i], Prefix)
          /\ Norm(df.rows[i][args.taxon_level]) = Dummy
    /\ Len(out.rows) = 1
    /\ out.rows[1][args.taxon_level] = Dummy

\* C20: a call whose taxon_level is none of the seven ranks raises ValueError
\* for every input table and every other argument; nothing is returned.
C20_UnknownRank ==
    (Called /\ ~Contains(<<"kingdom", "phylum", "class", "order", "family",
                           "genus", "species">>, args.taxon_level)) =>
        /\ out.status = "ValueError"
        /\ out.rows = <<>>
        /\ out.columns = <<>>

\* C20 witness: a call with taxon_level='strain' on a table with rows, which
\* a call at a recognized rank would aggregate.
C20_Witness ==
    /\ Called
    /\ args.taxon_level = "strain"
    /\ df.rows # <<>>
    /\ out.status = "ValueError"
    /\ has_columns(df, <<"kingdom", "phylum">>)

-----------------------------------------------------------------------------
(* Trees: Bio.Phylo clades, the parent index and the taxon-name patterns *)

\* Python's None, comparable with names and lineages (sequences)
None == << "None" >>

\* no clade (find_any and get_clade return None)
NoClade == 0

\* None where a list of labels is expected (a lineage, a taxonomy)
NoLineage == << None >>

\* None where a tree is expected
NoTree == [root |-> NoClade, clades |-> <<>>, name |-> <<>>]

\* the characters of clade names and identifiers, by the classes the
\* patterns use: \d, \w (letters, digits, underscore) and [\w\d_-]
Digits == {"0", "1", "2", "3", "4", "5", "6", "7", "8", "9"}

Letters ==
    {"A", "B", "C", "D", "E", "F", "G", "H", "I", "J", "K", "L", "M", "N",
     "O", "P", "Q", "R", "S", "T", "U", "V", "W", "X", "Y", "Z",
     "a", "b", "c", "d", "e", "f", "g", "h", "i", "j", "k", "l", "m", "n",
     "o", "p", "q", "r", "s", "t", "u", "v", "w", "x", "y", "z"}

WordChars == Letters \cup Digits \cup {"_"}

\* the position after the longest run of characters of Class that starts at i
RECURSIVE RunEnd(_, _, _)
RunEnd(s, i, Class) ==
    IF i <= Len(s) /\ s[i] \in Class THEN RunEnd(s, i + 1, Class) ELSE i

\* (?P<name>(?P<prefix>\w__)\[?[\w\d_-]*\]?) tried at position j: the position
\* after the name, 0 when there is no match at j.  bracketed = FALSE is the
\* pattern of creator.count_parser, (?P<name>\w__[\w\d_-]*), without the
\* optional brackets.
name_end(s, j, bracketed) ==
    IF j + 2 <= Len(s) /\ s[j] \in WordChars /\ s[j + 1] = "_" /\ s[j + 2] = "_"
    THEN LET a == IF bracketed /\ j + 3 <= Len(s) /\ s[j + 3] = "["
                  THEN j + 4 ELSE j + 3
             b == RunEnd(s, a, WordChars \cup {"-"})
         IN  IF bracketed /\ b <= Len(s) /\ s[b] = "]" THEN b + 1 ELSE b
    ELSE 0

\* taxon_name_re tried at position i: <<start of the name group, position
\* after the match>>, <<0, 0>> when there is no match at i.  The optional
\* branch length ([\d.]+:)? is tried first.
match_at(s, i, bracketed) ==
    LET r == RunEnd(s, i, Digits \cup {"."})
        after_length == IF r > i /\ r <= Len(s) /\ s[r] = ":"
                        THEN name_end(s, r + 1, bracketed) ELSE 0
        plain == name_end(s, i, bracketed)
    IN  IF after_length > 0 THEN <<r + 1, after_length>>
        ELSE IF plain > 0 THEN <<i, plain>>
        ELSE <<0, 0>>

\* taxon_name_re.finditer(name): the name groups of the successive
\* non-overlapping matches, scanning from position i
RECURSIVE finditer(_, _, _)
finditer(s, i, bracketed) ==
    IF i > Len(s) THEN <<>>
    ELSE LET m == match_at(s, i, bracketed)
         IN  IF m[1] = 0 THEN finditer(s, i + 1, bracketed)
             ELSE <<SubSeq(s, m[1], m[2] - 1)>> \o finditer(s, m[2], bracketed)

\* the names a clade name holds; a clade without a name (None or '') holds none
taxon_names(name, bracketed) ==
    IF name = None \/ name = <<>> THEN <<>> ELSE finditer(name, 1, bracketed)

\* match.group('prefix'), taxon_name[:3]
prefix_of(taxon) == SubSeq(taxon, 1, 3)

\* lineage_prefixes of parse_counts, taxa_prefix of get_lineage_from_tree
taxa_prefix ==
    << <<"k", "_", "_">>, <<"p", "_", "_">>, <<"c", "_", "_">>,
       <<"o", "_", "_">>, <<"f", "_", "_">>, <<"g", "_", "_">>,
       <<"s", "_", "_">> >>

\* tree.find_clades(order='preorder') from the clades on the stack
RECURSIVE preorder(_, _)
preorder(t, stack) ==
    IF stack = <<>> THEN <<>>
    ELSE <<Head(stack)>> \o preorder(t, t.clades[Head(stack)] \o Tail(stack))

\* tree.find_clades(order='level') from the clades on the queue
RECURSIVE level_order(_, _)
level_order(t, queue) ==
    IF queue = <<>> THEN <<>>
    ELSE <<Head(queue)>> \o level_order(t, Tail(queue) \o t.clades[Head(queue)])

is_terminal(t, clade) == t.clades[clade] = <<>>

\* the inner loop recording only the first child of the clade
set_first_child(parents_, children, clade) ==
    IF children = <<>> THEN parents_
    ELSE [c \in DOMAIN parents_ \cup {Head(children)} |->
            IF c = Head(children) THEN clade ELSE parents_[c]]

\* for child in clade: parents[child] = clade
set_children(parents_, children, clade) ==
    [c \in DOMAIN parents_ \cup Range(children) |->
        IF c \in Range(children) THEN clade ELSE parents_[c]]

\* the outer loop of all_parents over the clades still to visit
RECURSIVE assign_parents(_, _, _)
assign_parents(t, todo, parents_) ==
    IF todo = <<>> THEN parents_
    ELSE assign_parents(t, Tail(todo),
                        set_children(parents_, t.clades[Head(todo)], Head(todo)))

\* parents = {}
EmptyDict == [c \in {} |-> NoClade]

all_parents(t) == assign_parents(t, level_order(t, <<t.root>>), EmptyDict)

\* a dict that stores a default under a key read while absent
setdefault_after_getitem(d, key) ==
    IF key \in DOMAIN d THEN d
    ELSE [c \in DOMAIN d \cup {key} |-> IF c = key THEN NoClade ELSE d[c]]

\* parents = {} is a plain dict: d[key] returns the value or raises KeyError,
\* and leaves the dict as it was
dict_after_getitem(d, key) == d

\* the dict after d[key] has been read for each key in turn
RECURSIVE after_reads(_, _)
after_reads(d, keys) ==
    IF keys = <<>> THEN d
    ELSE after_reads(dict_after_getitem(d, Head(keys)), Tail(keys))

\* get_path(clade, parents): clade, its parent, ... until parents[clade]
\* raises KeyError
RECURSIVE get_path(_, _)
get_path(clade, parents_) ==
    <<clade>> \o (IF clade \in DOMAIN parents_
                  THEN get_path(parents_[clade], parents_) ELSE <<>>)

\* parents after get_path(clade, parents): parents[clade] has been read for
\* every clade of the path, the last read raising KeyError
parents_after_get_path(clade, parents_) ==
    after_reads(parents_, get_path(clade, parents_))

\* debug_tools get_path(seq, parents, asv_clades): None for an unknown seq
get_path_of_seq(seq, parents_, asv_clades) ==
    IF seq \notin DOMAIN asv_clades THEN None
    ELSE get_path(asv_clades[seq], parents_)

\* tree.find_any(name=name): the first clade in preorder whose name matches
\* name + '$'; the identifiers hold letters and digits only, so the match is
\* equality
find_any(t, name) ==
    LET hits == SelectSeq(preorder(t, <<t.root>>), LAMBDA c : t.name[c] = name)
    IN  IF hits = <<>> THEN NoClade ELSE Head(hits)

\* any(x in clade.name for x in contains)
contains_any(name, contains) == \E k \in DOMAIN name : name[k] \in contains

\* {clade.name: clade for clade in find_clades_by_name(tree, terminal=True,
\* contains=contains)}: of two clades with one name the later one is kept
set_index_clades(t, contains) ==
    LET found == SelectSeq(preorder(t, <<t.root>>),
                    LAMBDA c : /\ is_terminal(t, c)
                               /\ t.name[c] # None /\ t.name[c] # <<>>
                               /\ contains_any(t.name[c], contains))
    IN  [n \in {t.name[found[k]] : k \in DOMAIN found} |->
            found[CHOOSE k \in DOMAIN found :
                    /\ t.name[found[k]] = n
                    /\ \A j \in DOMAIN found : t.name[found[j]] = n => j <= k]]

\* ParsedTree.get_clade(name, index_only)
get_clade(t, index, name, index_only) ==
    IF name \in DOMAIN index THEN index[name]
    ELSE IF index_only THEN NoClade
    ELSE find_any(t, name)

-----------------------------------------------------------------------------
(* Lineages from the tree *)

\* for match in matches: lineage.insert(0, taxon)
RECURSIVE insert_all(_, _)
insert_all(lineage, taxa) ==
    IF taxa = <<>> THEN lineage
    ELSE insert_all(<<Head(taxa)>> \o lineage, Tail(taxa))

\* for clade in path: ... (a clade without a name is skipped)
RECURSIVE collect_taxa(_, _, _)
collect_taxa(t, path, lineage) ==
    IF path = <<>> THEN lineage
    ELSE collect_taxa(t, Tail(path),
                      insert_all(lineage, taxon_names(t.name[Head(path)], TRUE)))

\* full_lineage = prefixes.copy(); full_lineage[:len(lineage)] = lineage
fill_levels(lineage, prefixes) ==
    lineage \o SubSeq(prefixes, Len(lineage) + 1, Len(prefixes))

\* get_lineage_from_path(path, pattern=taxon_name_re, prefixes, all_levels)
get_lineage_from_path(t, path, prefixes, all_levels) ==
    IF path = <<>> THEN NoLineage
    ELSE LET lineage == collect_taxa(t, path, <<>>)
         IN  IF prefixes # <<>> /\ all_levels
             THEN fill_levels(lineage, prefixes)
             ELSE lineage

\* the outcome of a lookup: the value returned or the exception raised
Value(v) == [status |-> "ok", value |-> v]

Error(e) == [status |-> e, value |-> NoLineage]

\* ParsedTree.get_lineage(clade, index_only) with the taxon_pattern and the
\* lineage_prefixes that parse_counts constructs the ParsedTree with
ParsedTree_get_lineage(t, parents_, index, name, index_only) ==
    LET clade == get_clade(t, index, name, index_only)
    IN  IF clade = NoClade THEN Error("ValueError")
        ELSE Value(get_lineage_from_path(t, get_path(clade, parents_),
                                         taxa_prefix, TRUE))

\* clade.name contains '__': tree.find_elements(name=r'.*__.*')
has_separator(name) ==
    /\ name # None
    /\ \E k \in 1..(Len(name) - 1) : name[k] = "_" /\ name[k + 1] = "_"

\* get_tree_taxa(tree): the clades, in preorder, whose name holds '__'
get_tree_taxa(t) ==
    SelectSeq(preorder(t, <<t.root>>), LAMBDA c : has_separator(t.name[c]))

\* taxon.is_parent_of(seq_var): seq_var is taxon or below it
is_parent_of(t, taxon, target) == Contains(preorder(t, <<taxon>>), target)

\* lineage[key] = taxon_name on an OrderedDict, kept as a sequence of
\* <<key, value>> pairs: a known key keeps its place, a new key goes last
od_set(od, key, value) ==
    IF \E k \in DOMAIN od : od[k][1] = key
    THEN [k \in DOMAIN od |-> IF od[k][1] = key THEN <<key, value>> ELSE od[k]]
    ELSE Append(od, <<key, value>>)

\* for taxon_name_match in taxon_name_matches: lineage[key] = taxon_name
RECURSIVE od_set_all(_, _)
od_set_all(od, taxa) ==
    IF taxa = <<>> THEN od
    ELSE od_set_all(od_set(od, prefix_of(Head(taxa)), Head(taxa)), Tail(taxa))

\* for taxon in taxa: if taxon.is_parent_of(seq_var): ...
RECURSIVE scan_taxa(_, _, _, _)
scan_taxa(t, taxa, seq_var, od) ==
    IF taxa = <<>> THEN od
    ELSE scan_taxa(t, Tail(taxa), seq_var,
                   IF is_parent_of(t, Head(taxa), seq_var)
                   THEN od_set_all(od, taxon_names(t.name[Head(taxa)], FALSE))
                   ELSE od)

\* creator.count_parser.get_lineage_from_tree(obs_id, tree, taxa), tree given
get_lineage_from_tree(name, t, taxa) ==
    LET seq_var == find_any(t, name)
        lineage == [k \in DOMAIN taxa_prefix |-> <<taxa_prefix[k], taxa_prefix[k]>>]
    IN  IF seq_var = NoClade THEN [k \in DOMAIN taxa_prefix |-> None]
        ELSE LET od == scan_taxa(t, taxa, seq_var, lineage)
             IN  [k \in DOMAIN od |-> od[k][2]]

-----------------------------------------------------------------------------
(* The trees looked up *)

\* the name of the i-th clade when it is a leaf: an observation id, distinct
\* per clade; every third one an OTU number, the others nucleotide sequences
Bases == << "A", "C", "G", "T" >>

LeafName(i) ==
    IF i % 3 = 0 THEN [k \in 1..i |-> "7"]
    ELSE [k \in 1..i |-> Bases[((k + i) % 4) + 1]]

\* the names of the inner clades, root first, repeated from the start when a
\* tree has more inner clades than names
InnerNames ==
    { \* kingdom, phylum, class: each rank once, none left out
      << Label("k", <<"A">>), Label("p", <<"F">>), Label("c", <<"C">>) >>,
      \* a rank left out between two labelled ancestors
      << Label("k", <<"A">>), Label("c", <<"C">>), Label("g", <<"X">>) >>,
      \* two ancestors with a label of the same rank
      << Label("k", <<"A">>), Label("g", <<"X">>), Label("g", <<"Y">>) >>,
      \* an unnamed clade, a name with a branch length and two labels, one of
      \* them bracketed, and a name without a label
      << None,
         <<"0", ".", "5", ":">> \o Label("k", <<"A">>) \o <<";", " ">>
            \o Label("p", <<"[", "F", "]">>),
         <<"0", ".", "9">> >>,
      \* a prefix that is no rank letter
      << Label("x", <<"Q">>), Label("k", <<"A">>), Label("p", <<"F">>) >> }

\* the rooted trees with n clades: clade 1 is the root, the parent of every
\* other clade has a smaller number, the children are in ascending order
Shapes(n) == {p \in [2..n -> 1..n] : \A c \in 2..n : p[c] < c}

TreeOf(n, p, inner) ==
    LET kids == [c \in 1..n |->
                   SelectSeq([k \in 1..n |-> k], LAMBDA k : k > 1 /\ p[k] = c)]
    IN  [root |-> 1,
         clades |-> kids,
         name |-> [c \in 1..n |->
                     IF kids[c] = <<>> THEN LeafName(c)
                     ELSE inner[((c - 1) % Len(inner)) + 1]]]

Trees ==
    UNION {{TreeOf(n, p, inner) : p \in Shapes(n), inner \in InnerNames} :
              n \in 1..MaxNodes}

Clades(t) == DOMAIN t.clades

\* the names looked up: the name of every clade and a name no clade has
NamesAsked(t) == ({t.name[c] : c \in Clades(t)} \ {None}) \cup {<<"N">>}

\* the nucleotides a sequence is recognised by (set_index_clades in
\* parse_counts)
Nucleotides == {"A", "T", "G", "C"}

-----------------------------------------------------------------------------
(* The lookups *)

UnusedAgg ==
    /\ df = Unused /\ pc = Unused /\ args = Unused
    /\ out = Unused /\ out2 = Unused

NoQuery == [fn |-> "none", name |-> None, clade |-> NoClade]

\* tree = get_tree(file, tree_format)
InitTree ==
    /\ tree \in Trees
    /\ parents = EmptyDict
    /\ index_clades = EmptyDict
    /\ tpc = "parsed"
    /\ query = NoQuery
    /\ result = Error("none")
    /\ UnusedAgg
    /\ UnusedCounts
    /\ UnusedModel

\* ParsedTree.__init__: self.parents = all_parents(self.tree)
BuildParents ==
    /\ tpc = "parsed"
    /\ parents' = all_parents(tree)
    /\ index_clades' = EmptyDict
    /\ tpc' = "indexed"
    /\ UNCHANGED <<tree, query, result, varsAgg, varsCounts, varsModel>>

\* tree.set_index_clades(contains=['A','T','G','C'])
SetIndexClades ==
    /\ tpc = "indexed"
    /\ index_clades' = set_index_clades(tree, Nucleotides)
    /\ UNCHANGED <<tree, parents, tpc, query, result, varsAgg, varsCounts, varsModel>>

\* path = get_path(clade, parents)
GetPath(clade) ==
    /\ tpc = "indexed"
    /\ query' = [fn |-> "get_path", name |-> None, clade |-> clade]
    /\ result' = Value(get_path(clade, parents))
    /\ parents' = parents_after_get_path(clade, parents)
    /\ UNCHANGED <<tree, index_clades, tpc, varsAgg, varsCounts, varsModel>>

\* path = get_path(seq, parents, asv_clades) of debug_tools, with the index
\* of clades by name as asv_clades
GetPathOfSeq(name) ==
    /\ tpc = "indexed"
    /\ query' = [fn |-> "get_path_of_seq", name |-> name,
                 clade |-> IF name \in DOMAIN index_clades
                           THEN index_clades[name] ELSE NoClade]
    /\ result' = Value(get_path_of_seq(name, parents, index_clades))
    /\ parents' = IF name \in DOMAIN index_clades
                  THEN parents_after_get_path(index_clades[name], parents)
                  ELSE parents
    /\ UNCHANGED <<tree, index_clades, tpc, varsAgg, varsCounts, varsModel>>

\* lineage = parsed_tree.get_lineage(name, index_only=index_only)
GetLineage(name, index_only) ==
    /\ tpc = "indexed"
    /\ query' = [fn |-> "get_lineage", name |-> name,
                 clade |-> get_clade(tree, index_clades, name, index_only)]
    /\ result' = ParsedTree_get_lineage(tree, parents, index_clades, name,
                                        index_only)
    /\ parents' = IF get_clade(tree, index_clades, name, index_only) = NoClade
                  THEN parents
                  ELSE parents_after_get_path(
                          get_clade(tree, index_clades, name, index_only), parents)
    /\ index_clades' = dict_after_getitem(index_clades, name)
    /\ UNCHANGED <<tree, tpc, varsAgg, varsCounts, varsModel>>

\* lineage = get_lineage_from_tree(obs_id, tree, get_tree_taxa(tree))
GetLineageFromTree(name) ==
    /\ tpc = "parsed"
    /\ query' = [fn |-> "get_lineage_from_tree", name |-> name,
                 clade |-> find_any(tree, name)]
    /\ result' = Value(get_lineage_from_tree(name, tree, get_tree_taxa(tree)))
    /\ UNCHANGED <<tree, parents, index_clades, tpc, varsAgg, varsCounts, varsModel>>

NextTree ==
    \/ BuildParents
    \/ SetIndexClades
    \/ \E clade \in Clades(tree) : GetPath(clade)
    \/ \E name \in NamesAsked(tree) : GetPathOfSeq(name)
    \/ \E name \in NamesAsked(tree), index_only \in BOOLEAN :
          GetLineage(name, index_only)
    \/ \E name \in NamesAsked(tree) : GetLineageFromTree(name)

SpecTree == InitTree /\ [][NextTree]_vars

-----------------------------------------------------------------------------
(* Properties of the parent index and of the lineages from the tree *)

\* the clade that lists c among its children
ParentOf(t, c) == CHOOSE p \in Clades(t) : Contains(t.clades[p], c)

\* the number of edges between the root and c
RECURSIVE Depth(_, _)
Depth(t, c) == IF c = t.root THEN 0 ELSE 1 + Depth(t, ParentOf(t, c))

\* c, its parent, ..., the root
RECURSIVE Ancestors(_, _)
Ancestors(t, c) ==
    IF c = t.root THEN <<c>> ELSE <<c>> \o Ancestors(t, ParentOf(t, c))

\* path starts at c, steps from each clade to its parent, and ends at the
\* root after Depth(c) steps
IsPathToRoot(path, c) ==
    /\ Len(path) = Depth(tree, c) + 1
    /\ path[1] = c
    /\ \A i \in 1..(Len(path) - 1) : Contains(tree.clades[path[i + 1]], path[i])
    /\ path[Len(path)] = tree.root

\* C14: all_parents returns a map with an entry for every clade but the root,
\* each mapped to the clade that lists it as a child; get_path from a clade at
\* depth d returns d+1 clades: the clade, then each one's parent, the root
\* last.
C14_ParentIndexTotality ==
    /\ tpc = "indexed" =>
          /\ DOMAIN parents = Clades(tree) \ {tree.root}
          /\ \A c \in DOMAIN parents : Contains(tree.clades[parents[c]], c)
    /\ (tpc = "indexed" /\ query.fn = "get_path") =>
          IsPathToRoot(result.value, query.clade)
    /\ (tpc = "indexed" /\ query.fn = "get_path_of_seq"
          /\ query.clade # NoClade) =>
          IsPathToRoot(result.value, query.clade)

\* C14 witness: get_path from a clade two levels below the root of a tree in
\* which a clade has two children; the path holds three clades.
C14_Witness ==
    /\ tpc = "indexed"
    /\ query.fn = "get_path"
    /\ Depth(tree, query.clade) = 2
    /\ \E c \in Clades(tree) : Len(tree.clades[c]) = 2
    /\ Len(result.value) = 3
    /\ result.value[3] = tree.root

\* the labels of rank k that clade c carries in its name
LabelsOf(t, c, k) ==
    {l \in Range(taxon_names(t.name[c], TRUE)) : prefix_of(l) = taxa_prefix[k]}

\* the places on the path from c to the root whose clade carries a label of
\* rank k
Carriers(t, c, k) ==
    {i \in DOMAIN Ancestors(t, c) : LabelsOf(t, Ancestors(t, c)[i], k) # {}}

\* a lineage was resolved by walking from the leaf to the root
WalkedUp ==
    /\ tpc = "indexed"
    /\ query.fn = "get_lineage"
    /\ result.status = "ok"
    /\ is_terminal(tree, query.clade)

\* C12: when a lineage is resolved by walking from the leaf to the root and
\* two ancestors on the path carry a label of the same rank, the slot of that
\* rank holds the label of the ancestor nearest the leaf.
C12_ClosestAncestor ==
    WalkedUp =>
        \A k \in DOMAIN taxa_prefix :
            LET on_path == Carriers(tree, query.clade, k)
                nearest == CHOOSE i \in on_path : \A j \in on_path : i <= j
            IN  Cardinality(on_path) >= 2 =>
                   /\ Len(result.value) >= k
                   /\ result.value[k] \in
                         LabelsOf(tree, Ancestors(tree, query.clade)[nearest], k)

\* a lineage was resolved from the tree, by either implementation
FromTree ==
    /\ tpc \in {"parsed", "indexed"}
    /\ query.fn \in {"get_lineage", "get_lineage_from_tree"}
    /\ query.clade # NoClade
    /\ result.status = "ok"

\* C13: a lineage resolved from a tree has exactly seven entries, and entry i
\* is unset, the dummy of rank i, or a label with the letter of rank i.
C13_SevenAligned ==
    FromTree =>
        /\ Len(result.value) = Len(taxa_prefix)
        /\ \A i \in DOMAIN result.value :
              \/ result.value[i] = None
              \/ prefix_of(result.value[i]) = taxa_prefix[i]

-----------------------------------------------------------------------------
(* BIOM tables and the extraction of counts *)

\* A biom Table: the observation and sample ids in order, the matrix
\* data[observation][sample], and the observation metadata: None, or one
\* taxonomy list per observation.
index(ids, id) == IndexOf(ids, id)

\* None where the observation metadata of a table are expected
NoMetadata == << NoLineage >>

\* table.metadata(obs_id, axis='observation')['taxonomy']; the metadata of a
\* table without observation metadata are None (and None['taxonomy'] raises
\* TypeError)
metadata(tb, id) ==
    IF tb.observation_metadata = NoMetadata THEN NoLineage
    ELSE tb.observation_metadata[index(tb.observation_ids, id)]

\* table.nonzero(): the (obs_id, samp_id) pairs of the nonzero cells, row by
\* row
nonzero(tb) ==
    LET cells == [n \in 1..(Len(tb.observation_ids) * Len(tb.sample_ids)) |->
                    << ((n - 1) \div Len(tb.sample_ids)) + 1,
                       ((n - 1) % Len(tb.sample_ids)) + 1 >>]
        hits == SelectSeq(cells, LAMBDA c : tb.data[c[1]][c[2]] # 0)
    IN  [n \in DOMAIN hits |->
            <<tb.observation_ids[hits[n][1]], tb.sample_ids[hits[n][2]]>>]

\* table.get_value_by_ids(obs_id, samp_id)
get_value_by_ids(tb, o, sm) ==
    tb.data[index(tb.observation_ids, o)][index(tb.sample_ids, sm)]

\* Lineage(**dict(zip(['kingdom_', ..., 'species_'], lineage))): the seven
\* attributes in rank order; zip stops at the shorter list and an attribute
\* not given is None
Lineage(lineage) ==
    [k \in DOMAIN taxa_prefix |->
        IF k <= Len(lineage) THEN lineage[k] ELSE None]

\* one call of the resolver: the observation, what it returned or raised, and
\* whether it called into the tree
Call(id, r, tree_used) ==
    [obs_id |-> id, status |-> r.status, lineage |-> r.value,
     tree_used |-> tree_used]

\* the resolver asking the tree before the table
get_lineage_tree_first(tb, id, t) ==
    IF t # NoTree
    THEN Call(id, Value(Lineage(get_lineage_from_tree(id, t, get_tree_taxa(t)))),
              TRUE)
    ELSE IF metadata(tb, id) # NoLineage
    THEN Call(id, Value(Lineage(metadata(tb, id))), FALSE)
    ELSE Call(id, Error("AttributeError"), TRUE)

\* creator get_lineage(table, obs_id, session, tree, taxa): the taxonomy of the
\* metadata; None['taxonomy'] raises TypeError and the tree is asked, where
\* tree.find_any raises AttributeError on tree = None
get_lineage(tb, id, t) ==
    IF metadata(tb, id) # NoLineage
    THEN Call(id, Value(Lineage(metadata(tb, id))), FALSE)
    ELSE IF t = NoTree THEN Call(id, Error("AttributeError"), TRUE)
    ELSE Call(id, Value(Lineage(get_lineage_from_tree(id, t, get_tree_taxa(t)))),
              TRUE)

\* the calls of a loop up to and including the first that raised
until_raise(calls) ==
    LET raised == {k \in DOMAIN calls : calls[k].status # "ok"}
    IN  IF raised = {} THEN calls
        ELSE SubSeq(calls, 1, CHOOSE k \in raised : \A j \in raised : k <= j)

\* the exception that ended a loop, "ok" when none did
status_of(calls) ==
    IF calls # <<>> /\ calls[Len(calls)].status # "ok"
    THEN calls[Len(calls)].status ELSE "ok"

\* get_lineage_map: get_lineage for every observation id of the table, in
\* order; calls holds the calls made
get_lineage_map(tb, t) ==
    LET calls == until_raise([k \in DOMAIN tb.observation_ids |->
                                 get_lineage(tb, tb.observation_ids[k], t)])
    IN  [status |-> status_of(calls), calls |-> calls]

\* re.match('[ATGCN]+', s): s starts with one of the letters
starts_with_nucleotide(s) == RunEnd(s, 1, {"A", "T", "G", "C", "N"}) > 1

\* the keys of the defaultdict counts in the order of their insertion: the
\* sample ids of the cells in the order of their first appearance
keys_of(cells) ==
    LET firsts == SelectSeq([n \in DOMAIN cells |-> n],
                      LAMBDA n : \A j \in 1..(n - 1) : cells[j][2] # cells[n][2])
    IN  [i \in DOMAIN firsts |-> cells[firsts[i]][2]]

\* the loop of get_counts over the nonzero cells, counts[samp_id].append(
\* count_elem): the dict as the sequence of its items.  A CountElement holds
\* count, lineage and seq_var; cell, the (obs_id, samp_id) it was made for,
\* is kept beside it to state the properties.
count_cells(tb, cells, lineage_map) ==
    LET elems == [n \in DOMAIN cells |->
                    [count |-> get_value_by_ids(tb, cells[n][1], cells[n][2]),
                     lineage |-> lineage_map[cells[n][1]],
                     seq_var |-> IF starts_with_nucleotide(cells[n][2])
                                 THEN cells[n][2] ELSE None,
                     cell |-> cells[n]]]
    IN  [i \in DOMAIN keys_of(cells) |->
            [key |-> keys_of(cells)[i],
             value |-> SelectSeq(elems, LAMBDA e : e.cell[2] = keys_of(cells)[i])]]

\* get_counts(biom_path, session) on the table of the BIOM file and the tree
\* of the .tre file beside it (None when there is no such file); the
\* lineage_map is built once, before the loop over the cells
get_counts(tb, t) ==
    LET loop(m) ==
            LET lineage_map ==
                    [id \in {m.calls[k].obs_id : k \in DOMAIN m.calls} |->
                        m.calls[CHOOSE k \in DOMAIN m.calls :
                                    m.calls[k].obs_id = id].lineage]
            IN  IF m.status # "ok"
                THEN [status |-> m.status, counts |-> <<>>, calls |-> m.calls]
                ELSE [status |-> "ok",
                      counts |-> count_cells(tb, nonzero(tb), lineage_map),
                      calls |-> m.calls]
    IN  CHOOSE r \in {loop(m) : m \in {get_lineage_map(tb, t)}} : TRUE

\* parsed_tree=None
NoParsedTree ==
    [tree |-> NoTree, parents |-> EmptyDict, index_clades |-> EmptyDict]

\* except ValueError: return None
except_ValueError(r) == IF r.status = "ValueError" THEN Value(NoLineage) ELSE r

\* wip parse_lineage(table, otu_id, parsed_tree, index_only): the taxonomy of
\* the metadata as it is; else the lineage of the ParsedTree, None when the
\* clade is not found (ValueError) or when no ParsedTree is given
parse_lineage(tb, id, parsed_tree, index_only) ==
    IF metadata(tb, id) # NoLineage
    THEN Call(id, Value(metadata(tb, id)), FALSE)
    ELSE IF parsed_tree = NoParsedTree THEN Call(id, Value(NoLineage), FALSE)
    ELSE Call(id,
              except_ValueError(
                  ParsedTree_get_lineage(parsed_tree.tree, parsed_tree.parents,
                      parsed_tree.index_clades, id, index_only)),
              TRUE)

\* the module global obs_id is not bound
Unbound == << "unbound" >>

\* parse_sequencing_variant(string): seq_var_re.match(obs_id).group() reads the
\* global obs_id, not its parameter: NameError when the global is not bound,
\* else the leading nucleotides of the global's value, None when it has none
parse_sequencing_variant(string, global_obs_id) ==
    IF global_obs_id = Unbound THEN Error("NameError")
    ELSE IF starts_with_nucleotide(global_obs_id)
    THEN Value(SubSeq(global_obs_id, 1,
                      RunEnd(global_obs_id, 1, {"A", "G", "C", "T", "N"}) - 1))
    ELSE Value(None)

\* ParsedTree(tree_file, ...) followed by set_index_clades(contains=[A,T,G,C])
ParsedTree(t) ==
    [tree |-> t, parents |-> all_parents(t),
     index_clades |-> set_index_clades(t, Nucleotides)]

\* not lineage
falsy(lineage) == lineage = NoLineage \/ lineage = <<>>

\* lineage = parse_lineage(table, obs_id); if not lineage and tree: lineage =
\* parse_lineage(table, obs_id, parsed_tree=tree, index_only=True): the calls
\* made, the last of which gives the lineage.  first is the first call.
resolve(tb, o, parsed_tree, first) ==
    IF falsy(first.lineage) /\ parsed_tree # NoParsedTree
    THEN <<first, parse_lineage(tb, o, parsed_tree, TRUE)>>
    ELSE <<first>>

\* Count(samp_id, obs_id, count, seq_var, lineage)
Count(samp_id, o, count, seq_var, lineage) ==
    [samp_id |-> samp_id, obs_id |-> o, count |-> count, seq_var |-> seq_var,
     lineage |-> lineage]

\* the rest of a pass of the loop after the calls of parse_lineage: the test
\* of tree raises UnboundLocalError when the lineage is falsy and no
\* tree_file was given, as the local name tree was never assigned
append_count(tb, o, sm, parsed_tree, calls, seq_var) ==
    [status |-> IF /\ falsy(calls[Len(calls)].lineage)
                   /\ parsed_tree = NoParsedTree
                THEN "UnboundLocalError" ELSE seq_var.status,
     calls |-> calls,
     elem |-> Count(sm, o, get_value_by_ids(tb, o, sm), seq_var.value,
                    calls[Len(calls)].lineage)]

\* one pass of the loop of parse_counts, for the nonzero cell (o, sm): the
\* calls of parse_lineage it makes, the Count it appends, and what it raises.
\* parsed_tree is NoParsedTree when no tree_file is given.
parse_cell(tb, o, sm, parsed_tree, global_obs_id) ==
    append_count(tb, o, sm, parsed_tree,
                 resolve(tb, o, parsed_tree,
                         parse_lineage(tb, o, NoParsedTree, TRUE)),
                 parse_sequencing_variant(o, global_obs_id))

RECURSIVE Flat(_)
Flat(ss) == IF ss = <<>> THEN <<>> ELSE Head(ss) \o Flat(Tail(ss))

\* parse_counts(biom_file, tree_file): the ParsedTree is made once, before the
\* loop; the Counts of the nonzero cells are returned, and an exception leaves
\* the caller without the list
parse_counts(tb, t, global_obs_id) ==
    LET cells == nonzero(tb)
        loop(parsed_tree) ==
            until_raise([n \in DOMAIN cells |->
                parse_cell(tb, cells[n][1], cells[n][2], parsed_tree,
                           global_obs_id)])
        return(passes) ==
            [status |-> status_of(passes),
             counts |-> IF status_of(passes) # "ok" THEN <<>>
                        ELSE [n \in DOMAIN passes |-> passes[n].elem],
             calls |-> Flat([n \in DOMAIN passes |-> passes[n].calls])]
    IN  CHOOSE r \in
            {return(passes) :
                passes \in {loop(parsed_tree) :
                    parsed_tree \in {IF t = NoTree THEN NoParsedTree
                                     ELSE ParsedTree(t)}}} : TRUE

-----------------------------------------------------------------------------
(* The extractions *)

\* the observations of the enumerated tables: a sequence and an OTU number
\* that are leaves of TreeBeside, and a sequence that is not in the tree
ObservationIds == << LeafName(4), LeafName(3), <<"G", "G">> >>

\* the samples: the second id begins with a nucleotide letter
SampleIds == << <<"S", "1">>, <<"T", "2">> >>

\* the taxonomy metadata, one list per observation: kingdom and phylum only,
\* all seven ranks, and a bracketed phylum
Taxonomies ==
    << << Label("k", <<"B">>), Label("p", <<"D">>) >>,
       << Label("k", <<"B">>), Label("p", <<"D">>), Label("c", <<"E">>),
          Label("o", <<"H">>), Label("f", <<"K">>), Label("g", <<"O">>),
          Label("s", <<"q">>) >>,
       << Label("k", <<"B">>), Label("p", <<"[", "D", "]">>), Label("c", <<>>) >> >>

Tables ==
    { [observation_ids |-> ObservationIds,
       sample_ids |-> SampleIds,
       data |-> d,
       observation_metadata |-> md] :
      d \in [DOMAIN ObservationIds -> [DOMAIN SampleIds -> 0..MaxCount]],
      md \in {NoMetadata, Taxonomies} }

\* the tree of the .tre file beside the BIOM file: root 'k__A', below it
\* 'p__F', below that the leaves '777' and 'CGTA'
TreeBeside ==
    TreeOf(4, [c \in 2..4 |-> IF c = 2 THEN 1 ELSE 2],
           << Label("k", <<"A">>), Label("p", <<"F">>) >>)

NoCounts == [status |-> "none", counts |-> <<>>, calls |-> <<>>]

\* table = biom.load_table(biom_path); tree is the tree read from the .tre
\* file, NoTree when the directory holds none (creator) or no tree_file is
\* given (wip); obs_id is the module global of that name in wip, bound or not
InitCounts ==
    /\ table \in Tables
    /\ tree \in {NoTree, TreeBeside}
    /\ obs_id \in {Unbound, ObservationIds[1], ObservationIds[2]}
    /\ cpc = "ready"
    /\ counts = NoCounts
    /\ parents = Unused /\ index_clades = Unused /\ tpc = Unused
    /\ query = Unused /\ result = Unused
    /\ UnusedAgg
    /\ UnusedModel

\* counts = get_counts(biom_path, session)
GetCounts ==
    /\ cpc = "ready"
    /\ counts' = get_counts(table, tree)
    /\ cpc' = "get_counts"
    /\ UNCHANGED <<table, obs_id, varsTree, varsAgg, varsModel>>

\* counts = parse_counts(biom_file, tree_file)
ParseCounts ==
    /\ cpc = "ready"
    /\ counts' = parse_counts(table, tree, obs_id)
    /\ cpc' = "parse_counts"
    /\ UNCHANGED <<table, obs_id, varsTree, varsAgg, varsModel>>

NextCounts == GetCounts \/ ParseCounts

SpecCounts == InitCounts /\ [][NextCounts]_vars

-----------------------------------------------------------------------------
(* Properties of the extraction of counts *)

\* an extraction has run
Extracted == cpc \in {"get_counts", "parse_counts"}

\* the count elements the extraction handed to its caller: filed is the sample
\* id an element is filed under (the key of the item of get_counts, the
\* samp_id of a Count of parse_counts), at its place there, cell the
\* (observation, sample) cell it was made for
Emitted ==
    IF cpc = "get_counts"
    THEN UNION {{[filed |-> counts.counts[i].key, at |-> <<i, k>>,
                  cell |-> counts.counts[i].value[k].cell,
                  count |-> counts.counts[i].value[k].count,
                  seq_var |-> counts.counts[i].value[k].seq_var,
                  lineage |-> counts.counts[i].value[k].lineage] :
                    k \in DOMAIN counts.counts[i].value} :
                i \in DOMAIN counts.counts}
    ELSE IF cpc = "parse_counts"
    THEN {[filed |-> counts.counts[n].samp_id, at |-> <<n, 1>>,
           cell |-> <<counts.counts[n].obs_id, counts.counts[n].samp_id>>,
           count |-> counts.counts[n].count,
           seq_var |-> counts.counts[n].seq_var,
           lineage |-> counts.counts[n].lineage] : n \in DOMAIN counts.counts}
    ELSE {}

\* the cells of the table
Cells ==
    {<<table.observation_ids[i], table.sample_ids[j]>> :
        i \in DOMAIN table.observation_ids, j \in DOMAIN table.sample_ids}

\* the calls of the lineage resolver made for observation o
CallsFor(o) == {k \in DOMAIN counts.calls : counts.calls[k].obs_id = o}

\* the table carries taxonomy metadata for observation o
HasMetadata(o) == metadata(table, o) # NoLineage

\* observation o has no taxonomy metadata, and no tree is supplied or the
\* tree has no leaf named exactly o
Unresolvable(o) ==
    /\ ~HasMetadata(o)
    /\ \/ tree = NoTree
       \/ ~\E c \in Clades(tree) : is_terminal(tree, c) /\ tree.name[c] = o

\* None, or a lineage whose every rank is None
AllNone(lineage) == \A k \in DOMAIN lineage : lineage[k] = None

\* C15: an observation without taxonomy metadata that the tree cannot resolve
\* (no tree, or no leaf of that name) never fails the extraction: its
\* resolution returns None or an all-None lineage without raising, and a count
\* element with that lineage is emitted for each of its nonzero cells.
C15_UnresolvableNeverFails ==
    Extracted =>
        \A o \in Range(table.observation_ids) :
            Unresolvable(o) =>
                /\ \A k \in CallsFor(o) :
                      /\ counts.calls[k].status = "ok"
                      /\ AllNone(counts.calls[k].lineage)
                /\ \A sm \in Range(table.sample_ids) :
                      get_value_by_ids(table, o, sm) # 0 =>
                          /\ counts.status = "ok"
                          /\ \E e \in Emitted :
                                e.cell = <<o, sm>> /\ AllNone(e.lineage)

\* lineage holds the taxonomy metadata of o rank by rank, and None at the
\* ranks the metadata do not give
SameAsMetadata(lineage, o) ==
    /\ \A k \in DOMAIN metadata(table, o) :
          k \in DOMAIN lineage /\ lineage[k] = metadata(table, o)[k]
    /\ \A k \in DOMAIN lineage :
          k > Len(metadata(table, o)) => lineage[k] = None

\* C16: metadata take precedence over the tree: for an observation with
\* taxonomy metadata every resolution returns exactly the metadata lineage
\* without consulting the tree, with or without a tree and whatever the tree
\* holds, and the emitted elements carry that lineage.
C16_MetadataPrecedence ==
    Extracted =>
        \A o \in Range(table.observation_ids) :
            HasMetadata(o) =>
                /\ \A k \in CallsFor(o) :
                      /\ counts.calls[k].status = "ok"
                      /\ ~counts.calls[k].tree_used
                      /\ SameAsMetadata(counts.calls[k].lineage, o)
                /\ \A e \in Emitted :
                      e.cell[1] = o => SameAsMetadata(e.lineage, o)

\* an element was emitted for an observation that has taxonomy metadata and
\* is also a leaf of the supplied tree, under other labels
C16_Witness ==
    /\ Extracted
    /\ tree # NoTree
    /\ \E e \in Emitted :
          /\ HasMetadata(e.cell[1])
          /\ find_any(tree, e.cell[1]) # NoClade
          /\ CallsFor(e.cell[1]) # {}

\* C17: get_counts emits exactly one count element per nonzero cell, filed
\* under the sample id of the cell with the count of the cell, and none for a
\* zero-valued cell.
C17_SparseSemantics ==
    cpc = "get_counts" =>
        \A cell \in Cells :
            IF get_value_by_ids(table, cell[1], cell[2]) # 0
            THEN /\ Cardinality({e \in Emitted : e.cell = cell}) = 1
                 /\ \A e \in Emitted :
                       e.cell = cell =>
                           /\ e.filed = cell[2]
                           /\ e.count = get_value_by_ids(table, cell[1], cell[2])
            ELSE \A e \in Emitted : e.cell # cell

\* a nonempty string over the nucleotide alphabet A, T, G, C, N
IsNucleotideString(s) ==
    s # <<>> /\ \A k \in DOMAIN s : s[k] \in {"A", "T", "G", "C", "N"}

\* C18: a count element is tagged as a sequencing variant if and only if the
\* observation id of its cell is a string over A, T, G, C, N, and the tag does
\* not bear on the lineage: the elements of one observation carry one lineage,
\* tagged or not.
C18_SequencingVariant ==
    Extracted =>
        /\ \A e \in Emitted :
              (e.seq_var # None) <=> IsNucleotideString(e.cell[1])
        /\ \A e1, e2 \in Emitted :
              (e1.cell[1] = e2.cell[1] /\ e1.seq_var # e2.seq_var) =>
                  e1.lineage = e2.lineage

\* the resolutions of the lineage of o within the extraction: the calls of
\* get_lineage (get_counts), the passes of the loop that ask parse_lineage
\* for it (parse_counts; a pass asks once without the tree and, if that gives
\* nothing and there is a tree, once more with it)
Resolutions(o) ==
    {k \in CallsFor(o) : cpc = "parse_counts" => ~counts.calls[k].tree_used}

-----------------------------------------------------------------------------
(* Properties of the validation of the columns *)

\* the ranks from kingdom through taxon_level that are no column of the table
MissingRanks == NotIn(required_taxon_levels(args.taxon_level), df.columns)

\* the names of grouping_cols that are no column of the table
MissingGrouping == NotIn(args.grouping_cols, df.columns)

\* a call has been made with a taxon_level that is a rank
RankCalled == Called /\ Contains(recognized_taxon_levels, args.taxon_level)

\* C21: when a rank from kingdom through taxon_level is no column of the
\* input, the call fails with the missing-rank-columns error
\* (NoTaxonLevelPresent), in simple and in hierarchical mode, and the error
\* names every missing rank.
C21_MissingRankColumns ==
    (RankCalled /\ MissingRanks # <<>>) =>
        /\ out.status = "NoTaxonLevelPresent"
        /\ \A c \in Range(MissingRanks) : Contains(out.detail, c)

C24_DefaultGrouping == pc = "redone" => out = out2

-----------------------------------------------------------------------------
(* Properties of the lookups against a built parent index *)

C30_IndexEqualsAncestorScan ==
    (tpc = "indexed" /\ query.fn = "get_lineage") =>
        result = Value(get_lineage_from_tree(query.name, tree,
                                             get_tree_taxa(tree)))

-----------------------------------------------------------------------------
(* all_parents on tree objects, well formed or not *)

\* a tree object built in memory from TreeOf(n, p, inner) by appending clade
\* c to the children of a second clade q as well
SharedChildOf(n, p, inner, q, c) ==
    LET kids == [k \in 1..n |->
                   IF k = q THEN Append(TreeOf(n, p, inner).clades[k], c)
                   ELSE TreeOf(n, p, inner).clades[k]]
    IN  [root |-> 1,
         clades |-> kids,
         name |-> [k \in 1..n |->
                     IF kids[k] = <<>> THEN LeafName(k)
                     ELSE inner[((k - 1) % Len(inner)) + 1]]]

SharedChildTrees ==
    UNION {UNION {{SharedChildOf(n, p, inner, q, c) :
                      inner \in InnerNames,
                      q \in {k \in 1..(c - 1) : k # p[c]}} :
                     p \in Shapes(n), c \in 3..n} :
              n \in 3..MaxNodes}

\* a tree object is handed to all_parents
InitParents ==
    /\ tree \in Trees \cup SharedChildTrees
    /\ parents = EmptyDict
    /\ index_clades = EmptyDict
    /\ tpc = "parsed"
    /\ query = NoQuery
    /\ result = Error("none")
    /\ UnusedAgg
    /\ UnusedCounts
    /\ UnusedModel

\* parents = all_parents(tree): the function has no raise statement
CallAllParents ==
    /\ tpc = "parsed"
    /\ parents' = all_parents(tree)
    /\ result' = Value(NoLineage)
    /\ query' = [fn |-> "all_parents", name |-> None, clade |-> tree.root]
    /\ tpc' = "indexed"
    /\ UNCHANGED <<tree, index_clades, varsAgg, varsCounts, varsModel>>

\* path = get_path(clade, parents) on the index all_parents returned
PathInParents(clade) ==
    /\ tpc = "indexed"
    /\ query' = [fn |-> "get_path", name |-> None, clade |-> clade]
    /\ result' = Value(get_path(clade, parents))
    /\ parents' = parents_after_get_path(clade, parents)
    /\ UNCHANGED <<tree, index_clades, tpc, varsAgg, varsCounts, varsModel>>

NextParents ==
    \/ CallAllParents
    \/ \E clade \in Clades(tree) : PathInParents(clade)

SpecParents == InitParents /\ [][NextParents]_vars

\* the clades that list c among their children
ParentsOf(t, c) == {q \in Clades(t) : Contains(t.clades[q], c)}

\* the number of times the iteration of all_parents yields clade c
TimesVisited(t, c) ==
    Cardinality({k \in DOMAIN level_order(t, <<t.root>>) :
                    level_order(t, <<t.root>>)[k] = c})

\* C26: all_parents visits every clade exactly once, and on a tree in which
\* a clade is listed as the child of two different clades the call ends with
\* an error; it never returns an index that keeps one of the two parents.
C26_MalformedTreeRejected ==
    tpc = "indexed" =>
        /\ \A c \in Clades(tree) : TimesVisited(tree, c) = 1
        /\ (\E c \in Clades(tree) : Cardinality(ParentsOf(tree, c)) >= 2) =>
              result.status # "ok"

-----------------------------------------------------------------------------
(* model.py: the links between Experiment, Subject and Sample objects *)

\* the objects of the fixtures of ModelAddTest and ModelRemoveTest
Experiments == {"experiment1", "experiment2"}

Subjects == {"subject1", "subject2"}

Samples == {"sample1", "sample2"}

\* sample._subject = None
NoSubject == "None"

\* the objects as their constructors leave them: every set empty, no sample
\* with a subject
NoLinks ==
    [Experiment_subjects |-> [e \in Experiments |-> {}],
     Experiment_samples |-> [e \in Experiments |-> {}],
     Subject_experiments |-> [s \in Subjects |-> {}],
     Subject_samples |-> [s \in Subjects |-> {}],
     Sample_experiments |-> [p \in Samples |-> {}],
     Sample_subject |-> [p \in Samples |-> NoSubject]]

\* a method at its first statement, and a method that raises there
Start(l) == [status |-> "ok", links |-> l]

Raised(l, e) == [status |-> e, links |-> l]

\* owner.field.add(x); skipped once an exception is on its way
set_add(st, field, owner, x) ==
    IF st.status # "ok" THEN st
    ELSE [st EXCEPT !.links[field][owner] = @ \cup {x}]

\* owner.field.remove(x): KeyError when x is not in the set
set_remove(st, field, owner, x) ==
    IF st.status # "ok" THEN st
    ELSE IF x \in st.links[field][owner]
         THEN [st EXCEPT !.links[field][owner] = @ \ {x}]
         ELSE [st EXCEPT !.status = "KeyError"]

\* sample._subject = subject
set_subject(st, p, subject) ==
    IF st.status # "ok" THEN st
    ELSE [st EXCEPT !.links.Sample_subject[p] = subject]

\* the orders in which a for loop can visit a set
Orders(S) ==
    {o \in [1..Cardinality(S) -> S] :
        \A i, j \in 1..Cardinality(S) : o[i] = o[j] => i = j}

\* experiment.samples.update(subject.samples);
\* for sample in subject.samples: sample.experiments.add(experiment)
RECURSIVE add_each_sample(_, _, _)
add_each_sample(st, order, e) ==
    IF order = <<>> THEN st
    ELSE add_each_sample(
            set_add(set_add(st, "Experiment_samples", e, Head(order)),
                    "Sample_experiments", Head(order), e),
            Tail(order), e)

\* for sample in ...: experiment.samples.remove(sample);
\*                    sample.experiments.remove(experiment)
RECURSIVE remove_each_sample(_, _, _)
remove_each_sample(st, order, e) ==
    IF order = <<>> THEN st
    ELSE remove_each_sample(
            set_remove(set_remove(st, "Experiment_samples", e, Head(order)),
                       "Sample_experiments", Head(order), e),
            Tail(order), e)

\* if not subject.samples.intersection(experiment.samples):
\*     experiment.subjects.remove(subject); subject.experiments.remove(experiment)
\* with subject = sample.subject; None has no attribute 'samples'
remove_orphaned_subject(st, e, p) ==
    IF st.status # "ok" THEN st
    ELSE IF st.links.Sample_subject[p] = NoSubject
         THEN [st EXCEPT !.status = "AttributeError"]
         ELSE IF st.links.Subject_samples[st.links.Sample_subject[p]]
                    \cap st.links.Experiment_samples[e] = {}
              THEN set_remove(set_remove(st, "Experiment_subjects", e,
                                         st.links.Sample_subject[p]),
                              "Subject_experiments",
                              st.links.Sample_subject[p], e)
              ELSE st

\* Experiment.add_subject(subject)
Experiment_add_subject(l, e, s) ==
    {add_each_sample(set_add(set_add(Start(l), "Experiment_subjects", e, s),
                             "Subject_experiments", s, e),
                     order, e) :
        order \in Orders(l.Subject_samples[s])}

\* Experiment.remove_subject(subject)
Experiment_remove_subject(l, e, s) ==
    IF s \notin l.Experiment_subjects[e] THEN {Raised(l, "KeyError")}
    ELSE {remove_each_sample(
             set_remove(set_remove(Start(l), "Experiment_subjects", e, s),
                        "Subject_experiments", s, e),
             order, e) :
            order \in Orders(l.Experiment_samples[e] \cap l.Subject_samples[s])}

\* Experiment.add_sample(sample)
Experiment_add_sample(l, e, p) ==
    IF l.Sample_subject[p] = NoSubject THEN {Raised(l, "AttributeError")}
    ELSE {set_add(set_add(set_add(set_add(Start(l),
                                          "Experiment_samples", e, p),
                                  "Sample_experiments", p, e),
                          "Experiment_subjects", e, l.Sample_subject[p]),
                  "Subject_experiments", l.Sample_subject[p], e)}

\* Experiment.remove_sample(sample)
Experiment_remove_sample(l, e, p) ==
    IF p \notin l.Experiment_samples[e] THEN {Raised(l, "KeyError")}
    ELSE {remove_orphaned_subject(
             set_remove(set_remove(Start(l), "Experiment_samples", e, p),
                        "Sample_experiments", p, e),
             e, p)}

\* Subject.add_experiment(experiment)
Subject_add_experiment(l, s, e) ==
    {add_each_sample(set_add(set_add(Start(l), "Subject_experiments", s, e),
                             "Experiment_subjects", e, s),
                     order, e) :
        order \in Orders(l.Subject_samples[s])}

\* Subject.remove_experiment(experiment): the loop runs over every sample of
\* the subject
Subject_remove_experiment(l, s, e) ==
    IF e \notin l.Subject_experiments[s] THEN {Raised(l, "KeyError")}
    ELSE {remove_each_sample(
             set_remove(set_remove(Start(l), "Subject_experiments", s, e),
                        "Experiment_subjects", e, s),
             order, e) :
            order \in Orders(l.Subject_samples[s])}

\* Subject.add_sample(sample)
Subject_add_sample(l, s, p) ==
    {set_subject(set_add(Start(l), "Subject_samples", s, p), p, s)}

\* for experiment in sample.experiments.copy(): ... of Subject.remove_sample
RECURSIVE leave_each_experiment(_, _, _)
leave_each_experiment(st, order, p) ==
    IF order = <<>> THEN st
    ELSE leave_each_experiment(
            remove_orphaned_subject(
               set_remove(set_remove(st, "Experiment_samples", Head(order), p),
                          "Sample_experiments", p, Head(order)),
               Head(order), p),
            Tail(order), p)

\* Subject.remove_sample(sample)
Subject_remove_sample(l, s, p) ==
    IF p \notin l.Subject_samples[s] THEN {Raised(l, "KeyError")}
    ELSE {set_subject(set_remove(leave_each_experiment(Start(l), order, p),
                                 "Subject_samples", s, p),
                      p, NoSubject) :
            order \in Orders(l.Sample_experiments[p])}

\* Sample.add_experiment(experiment)
Sample_add_experiment(l, p, e) ==
    IF l.Sample_subject[p] = NoSubject THEN {Raised(l, "AttributeError")}
    ELSE {set_add(set_add(set_add(set_add(Start(l),
                                          "Sample_experiments", p, e),
                                  "Experiment_samples", e, p),
                          "Experiment_subjects", e, l.Sample_subject[p]),
                  "Subject_experiments", l.Sample_subject[p], e)}

\* Sample.remove_experiment(experiment)
Sample_remove_experiment(l, p, e) ==
    IF e \notin l.Sample_experiments[p] THEN {Raised(l, "KeyError")}
    ELSE {remove_orphaned_subject(
             set_remove(set_remove(Start(l), "Sample_experiments", p, e),
                        "Experiment_samples", e, p),
             e, p)}

\* del sample.subject: self.subject.remove_sample(self)
Sample_del_subject(l, p) ==
    IF l.Sample_subject[p] = NoSubject THEN {Raised(l, "AttributeError")}
    ELSE Subject_remove_sample(l, l.Sample_subject[p], p)

\* sample.subject = subject, subject a Subject or None
Sample_set_subject(l, p, subject) ==
    LET cleared == IF l.Sample_subject[p] = NoSubject THEN {Start(l)}
                   ELSE Sample_del_subject(l, p)
    IN  IF subject = NoSubject THEN cleared
        ELSE {set_add(set_subject(st, p, subject), "Subject_samples", subject, p) :
                 st \in cleared}

-----------------------------------------------------------------------------
(* The operations on the objects *)

\* Experiment(), Subject(), Sample() with the default arguments
InitModel ==
    /\ links = NoLinks
    /\ call = [status |-> "ok"]
    /\ UnusedAgg
    /\ UnusedTree
    /\ UnusedCounts

\* the method ends in one of its outcomes: it returns, or raises and leaves
\* the objects with what it did before the exception
Ends(outcomes) ==
    /\ \E o \in outcomes :
          /\ links' = o.links
          /\ call' = [status |-> o.status]
    /\ UNCHANGED <<varsAgg, varsTree, varsCounts>>

\* one method of one object is called with one argument
NextModel ==
    \/ \E e \in Experiments, s \in Subjects :
          Ends(Experiment_add_subject(links, e, s))
    \/ \E e \in Experiments, s \in Subjects :
          Ends(Experiment_remove_subject(links, e, s))
    \/ \E e \in Experiments, p \in Samples :
          Ends(Experiment_add_sample(links, e, p))
    \/ \E e \in Experiments, p \in Samples :
          Ends(Experiment_remove_sample(links, e, p))
    \/ \E s \in Subjects, e \in Experiments :
          Ends(Subject_add_experiment(links, s, e))
    \/ \E s \in Subjects, e \in Experiments :
          Ends(Subject_remove_experiment(links, s, e))
    \/ \E s \in Subjects, p \in Samples :
          Ends(Subject_add_sample(links, s, p))
    \/ \E s \in Subjects, p \in Samples :
          Ends(Subject_remove_sample(links, s, p))
    \/ \E p \in Samples, e \in Experiments :
          Ends(Sample_add_experiment(links, p, e))
    \/ \E p \in Samples, e \in Experiments :
          Ends(Sample_remove_experiment(links, p, e))
    \/ \E p \in Samples, subject \in Subjects \cup {NoSubject} :
          Ends(Sample_set_subject(links, p, subject))
    \/ \E p \in Samples :
          Ends(Sample_del_subject(links, p))

SpecModel == InitModel /\ [][NextModel]_vars

-----------------------------------------------------------------------------
(* Properties of the links *)

\* the four agreements between the two ends of each link
Consistent(l) ==
    /\ \A e \in Experiments, p \in Samples :
          p \in l.Experiment_samples[e] <=> e \in l.Sample_experiments[p]
    /\ \A e \in Experiments, s \in Subjects :
          s \in l.Experiment_subjects[e] <=> e \in l.Subject_experiments[s]
    /\ \A p \in Samples, s \in Subjects :
          l.Sample_subject[p] = s <=> p \in l.Subject_samples[s]
    /\ \A e \in Experiments : \A p \in l.Experiment_samples[e] :
          l.Sample_subject[p] \in l.Experiment_subjects[e]

\* C27: after any sequence of the add and remove operations and of
\* assignments and deletions of sample.subject, a sample is in
\* experiment.samples iff the experiment is in sample.experiments, a subject
\* is in experiment.subjects iff the experiment is in subject.experiments,
\* sample.subject is s iff the sample is in s.samples, and every sample of an
\* experiment has its subject among the subjects of the experiment.
C27_LinksConsistent == Consistent(links)

\* two methods end alike: both return and leave the same links, or both raise
SameEnds(A, B) ==
    \A a \in A, b \in B :
        \/ a.status = "ok" /\ b.status = "ok" /\ a.links = b.links
        \/ a.status # "ok" /\ b.status # "ok"

\* C28: from every reachable state the two directions of each paired
\* operation end in the same links or both raise: remove_subject and
\* remove_experiment, add_subject and add_experiment, add_sample and
\* Sample.add_experiment, remove_sample and Sample.remove_experiment.
C28_PairedOperations ==
    /\ \A e \in Experiments, s \in Subjects :
          /\ SameEnds(Experiment_remove_subject(links, e, s),
                      Subject_remove_experiment(links, s, e))
          /\ SameEnds(Experiment_add_subject(links, e, s),
                      Subject_add_experiment(links, s, e))
    /\ \A e \in Experiments, p \in Samples :
          /\ SameEnds(Experiment_add_sample(links, e, p),
                      Sample_add_experiment(links, p, e))
          /\ SameEnds(Experiment_remove_sample(links, e, p),
                      Sample_remove_experiment(links, p, e))

\* the step removes sample p, held by experiment e, from e
RemovesSample(e, p) ==
    \/ /\ p \in links.Experiment_samples[e]
       /\ Ends(Experiment_remove_sample(links, e, p))
    \/ /\ e \in links.Sample_experiments[p]
       /\ Ends(Sample_remove_experiment(links, p, e))

\* C29: a step that removes a sample from an experiment returns, takes the
\* subject of the sample out of the experiment if and only if no other sample
\* of that subject remains in the experiment, and leaves the subjects and the
\* samples of every other experiment as they were.
C29_RemoveSample ==
    [][\A e \in Experiments, p \in Samples :
          RemovesSample(e, p) =>
             /\ call'.status = "ok"
             /\ p \notin links'.Experiment_samples[e]
             /\ links.Sample_subject[p] # NoSubject
             /\ (/\ links.Sample_subject[p] \in links.Experiment_subjects[e]
                 /\ links.Sample_subject[p] \notin links'.Experiment_subjects[e])
                <=> (links'.Experiment_samples[e]
                        \cap links.Subject_samples[links.Sample_subject[p]] = {})
             /\ \A other \in Experiments \ {e} :
                   /\ links'.Experiment_subjects[other]
                         = links.Experiment_subjects[other]
                   /\ links'.Experiment_samples[other]
                         = links.Experiment_samples[other]]_vars

=============================================================================
